---------------------------- MODULE Spec2Model ----------------------------
(***************************************************************************)
(* kiro2api: a protocol-translating gateway.  This module models           *)
(*   - the streaming translator: StreamProcessorContext /                  *)
(*     EventStreamProcessor (server/stream_processor.go), the              *)
(*     SSEStateManager (server/machine_id_handler.go) and the stream       *)
(*     exception strategies (server/error_mapper.go);                      *)
(*   - the credential side: TokenManager (auth/oauth_state.go), the        *)
(*     session binding (auth/session_token_binding.go), the session        *)
(*     subpool (auth/session_token_pool.go) and the retry orchestrator     *)
(*     (server/common.go, server/handlers.go).                             *)
(* Texts are sequences of one-character strings, so that the thinking-tag  *)
(* detection is computed as the code computes it.                          *)
(***************************************************************************)
EXTENDS Integers, Sequences, FiniteSets, TLC

VARIABLES
    ssm,        \* SSEStateManager fields
    ctx,        \* StreamProcessorContext fields (thinking wrapper, tool tracking)
    out,        \* the events written to the client's writer, in order
    phase,      \* position of the stream handler: "initial", "stream", "done"
    nRead,      \* number of upstream events processed so far
    upin,       \* the upstream events processed so far, where they are recorded
    clientGone, \* the client cancelled or its connection broke: writes fail
    tm,         \* TokenManager: cache, currentIndex, lastRefresh
    rl,         \* RateLimiter: per-token cooldownUntil, consecutive, daily
    bindings,   \* SessionTokenBindingManager.bindings
    pools,      \* SessionTokenPoolManager.pools
    upstream,   \* what the upstream reports for each account: tier and quota
    disabled,   \* the tokens TokenManager.isTokenDisabled reports
    now,        \* the clock, in ticks
    orch,       \* position of the request being served
    client,     \* HTTP responses written for the request being served
    selected,   \* the selections returned during the latest step
    refused,    \* the errors of the selections that found no token in it
    nReq,       \* number of requests accepted so far
    request,    \* the messages of the Anthropic request being converted
    envelope,   \* the upstream request built from it: history and tool results
    reply,      \* an upstream answer handed to the error mapper: status and body
    mapped,     \* the MapResult the error mapper returned for it
    str,        \* a string handed to TruncateUTF8, as its bytes
    maxBytes,   \* the byte limit handed to TruncateUTF8
    truncated,  \* what TruncateUTF8 returned for them
    locks,      \* each mutex: the goroutine holding it for writing, those reading
    progs,      \* each goroutine's lock operations, blocking calls and cursor uses
    pcs,        \* each goroutine's position in them
    tlm,        \* ToolLifecycleManager fields
    toolEvents  \* the events its latest call returned

sseVars == <<ssm, ctx, out, phase, nRead, upin, clientGone>>
poolVars == <<tm, rl, bindings, pools, upstream, disabled, now, orch, client, selected,
              refused, nReq>>
convVars == <<request, envelope>>
errVars == <<reply, mapped>>
utfVars == <<str, maxBytes, truncated>>
lockVars == <<locks, progs, pcs>>
toolVars == <<tlm, toolEvents>>
vars == <<sseVars, poolVars, convVars, errVars, utfVars, lockVars, toolVars>>

-----------------------------------------------------------------------------
(* Bounds of the streaming model *)

\* upstream events per response
MaxEvents == 3
\* upstream block indices are 0..MaxUpIndex
MaxUpIndex == 1

UpIndices == 0..MaxUpIndex

-----------------------------------------------------------------------------
(* Text helpers (Go strings package, on sequences of characters) *)

thinkingStartTag == <<"<", "t", "h", "i", "n", "k", "i", "n", "g", ">">>
thinkingEndTag == <<"<", "/", "t", "h", "i", "n", "k", "i", "n", "g", ">">>

NL == "\n"

Min(a, b) == IF a < b THEN a ELSE b

\* s[:n]
Take(s, n) == SubSeq(s, 1, Min(n, Len(s)))

\* s[n:]
Drop(s, n) == SubSeq(s, n + 1, Len(s))

HasPrefix(s, p) == Len(p) <= Len(s) /\ SubSeq(s, 1, Len(p)) = p

HasSuffix(s, p) == Len(p) <= Len(s) /\ SubSeq(s, Len(s) - Len(p) + 1, Len(s)) = p

\* strings.Index: 0-based offset of the first occurrence of p in s, or -1
StrIndex(s, p) ==
    LET hits == {i \in 0..(Len(s) - Len(p)) : SubSeq(s, i + 1, i + Len(p)) = p}
    IN IF hits = {} THEN -1 ELSE CHOOSE i \in hits : \A j \in hits : i <= j

TrimPrefix(s, p) == IF HasPrefix(s, p) THEN Drop(s, Len(p)) ELSE s

\* A continuation byte of a multi-byte UTF-8 character is written "~".
IsContinuation(b) == b = "~"

\* parser.FindCharBoundary(s, n): the largest offset <= n that does not fall
\* inside a multi-byte character.
FindCharBoundary(s, n) ==
    LET m == Min(n, Len(s))
        ok == {i \in 0..m : i = Len(s) \/ ~IsContinuation(s[i + 1])}
    IN IF ok = {} THEN 0 ELSE CHOOSE i \in ok : \A j \in ok : j <= i

-----------------------------------------------------------------------------
(* Events *)

NoIndex == -1
NoType == "-"

Event(type, index, blockType, deltaType, text, info) ==
    [type |-> type, index |-> index, blockType |-> blockType,
     deltaType |-> deltaType, text |-> text, info |-> info]

MessageStartEvent == Event("message_start", NoIndex, NoType, NoType, <<>>, NoType)
PingEvent == Event("ping", NoIndex, NoType, NoType, <<>>, NoType)
BlockStartEvent(i, bt) == Event("content_block_start", i, bt, NoType, <<>>, NoType)
BlockDeltaEvent(i, dt, txt) == Event("content_block_delta", i, NoType, dt, txt, NoType)
BlockStopEvent(i) == Event("content_block_stop", i, NoType, NoType, <<>>, NoType)
MessageDeltaEvent(reason) == Event("message_delta", NoIndex, NoType, NoType, <<>>, reason)
MessageStopEvent == Event("message_stop", NoIndex, NoType, NoType, <<>>, NoType)
ExceptionEvent(et) == Event("exception", NoIndex, NoType, NoType, <<>>, et)
ErrorEvent(et) == Event("error", NoIndex, NoType, NoType, <<>>, et)

-----------------------------------------------------------------------------
(* SSEStateManager.  The manager is only ever constructed with                *)
(* strictMode = false (NewStreamProcessorContext), so a handler never returns *)
(* an error: a violating event is skipped.  A handler takes the world         *)
(* w = [s: manager, c: context, o: client stream] and returns the new one.    *)
(* ord fixes the order in which a Go map range visits the block indices.      *)

strictMode == FALSE

NewSSEStateManager ==
    [messageStarted |-> FALSE, messageDeltaSent |-> FALSE, activeBlocks |-> <<>>,
     messageEnded |-> FALSE, nextBlockIndex |-> 0,
     inThinking |-> FALSE, thinkingBuffer |-> <<>>, thinkingBlockIndex |-> 0,
     thinkingBlockStarted |-> FALSE, textBlockStartedAfterThinking |-> FALSE,
     textBlockIndexAfterThinking |-> 0]

BlockState(type) == [type |-> type, started |-> TRUE, stopped |-> FALSE]

\* sender.SendEvent: AnthropicStreamSender writes the event and returns nil
Send(w, ev) == [w EXCEPT !.o = Append(@, ev)]

IsOpen(blocks, i) == i \in DOMAIN blocks /\ blocks[i].started /\ ~blocks[i].stopped

OpenIndices(blocks) == {i \in DOMAIN blocks : IsOpen(blocks, i)}

RECURSIVE AscendingSeq(_)
AscendingSeq(S) ==
    IF S = {} THEN <<>>
    ELSE LET m == CHOOSE i \in S : \A j \in S : i <= j
         IN <<m>> \o AscendingSeq(S \ {m})

\* the indices of S in the order a map range visits them
RangeOrder(S, ord) ==
    SelectSeq(ord, LAMBDA i : i \in S)
        \o AscendingSeq({i \in S : \A k \in 1..Len(ord) : ord[k] # i})

Perms(S) == {f \in [1..Cardinality(S) -> S] : \A i, j \in 1..Cardinality(S) : f[i] = f[j] => i = j}

\* handleMessageStart with the messageStarted test removed
HandleMessageStartUnguarded(w, ev) ==
    Send([w EXCEPT !.s.messageStarted = TRUE], ev)

\* handleMessageStart
HandleMessageStart(w, ev) ==
    IF w.s.messageStarted THEN w
    ELSE Send([w EXCEPT !.s.messageStarted = TRUE], ev)

\* the loop of handleContentBlockStart left out: no text block is closed
AutoCloseTextBlocksSkipped(w, todo) == w

\* the loop of handleContentBlockStart that closes the open text blocks
RECURSIVE AutoCloseTextBlocks(_, _)
AutoCloseTextBlocks(w, todo) ==
    IF todo = <<>> THEN w
    ELSE LET i == Head(todo)
             w1 == Send(w, BlockStopEvent(i))
         IN AutoCloseTextBlocks([w1 EXCEPT !.s.activeBlocks[i].stopped = TRUE], Tail(todo))

ResetThinkingState(w) ==
    IF w.s.thinkingBlockStarted
    THEN [w EXCEPT !.s.thinkingBlockStarted = FALSE, !.s.inThinking = FALSE,
                   !.s.thinkingBuffer = <<>>, !.s.textBlockStartedAfterThinking = FALSE,
                   !.s.textBlockIndexAfterThinking = 0]
    ELSE w

\* handleContentBlockStart with the test for a block already open removed
HandleContentBlockStartReopening(w, ev, ord) ==
    IF w.s.messageEnded THEN w
    ELSE
      LET index == IF ev.index = NoIndex THEN w.s.nextBlockIndex ELSE ev.index
          blockType == IF ev.blockType = NoType THEN "text" ELSE ev.blockType
      IN Send([w EXCEPT !.s.activeBlocks = (index :> BlockState(blockType)) @@ @,
                        !.s.nextBlockIndex = IF index >= @ THEN index + 1 ELSE @], ev)

\* handleContentBlockStart
HandleContentBlockStart(w, ev, ord) ==
    IF w.s.messageEnded THEN w
    ELSE
      LET index == IF ev.index = NoIndex THEN w.s.nextBlockIndex ELSE ev.index
          blocks == w.s.activeBlocks
      IN IF IsOpen(blocks, index) THEN w
         ELSE
           LET blockType == IF ev.blockType = NoType THEN "text" ELSE ev.blockType
               openText == {i \in OpenIndices(blocks) : blocks[i].type = "text"}
               w1 == IF blockType = "tool_use"
                     THEN ResetThinkingState(AutoCloseTextBlocks(w, RangeOrder(openText, ord)))
                     ELSE w
               w2 == [w1 EXCEPT !.s.activeBlocks = (index :> BlockState(blockType)) @@ @,
                                !.s.nextBlockIndex = IF index >= @ THEN index + 1 ELSE @]
           IN Send(w2, ev)

\* handleContentBlockStop
HandleContentBlockStop(w, ev) ==
    IF ev.index = NoIndex THEN w
    ELSE LET blocks == w.s.activeBlocks
             index == ev.index
         IN IF index \notin DOMAIN blocks \/ ~blocks[index].started THEN w
            ELSE IF blocks[index].stopped THEN w
            ELSE Send([w EXCEPT !.s.activeBlocks[index].stopped = TRUE], ev)

\* the loop of handleMessageDelta that closes the unclosed blocks
RECURSIVE AutoCloseBlocks(_, _)
AutoCloseBlocks(w, todo) ==
    IF todo = <<>> THEN w
    ELSE LET i == Head(todo)
             w1 == Send(w, BlockStopEvent(i))
         IN AutoCloseBlocks([w1 EXCEPT !.s.activeBlocks[i].stopped = TRUE], Tail(todo))

\* handleMessageDelta with the messageDeltaSent test removed
HandleMessageDeltaUnguarded(w, ev, ord) ==
    LET unclosedBlocks == RangeOrder(OpenIndices(w.s.activeBlocks), ord)
    IN Send([AutoCloseBlocks(w, unclosedBlocks) EXCEPT !.s.messageDeltaSent = TRUE], ev)

\* handleMessageDelta
HandleMessageDelta(w, ev, ord) ==
    IF w.s.messageDeltaSent THEN w
    ELSE LET unclosedBlocks == RangeOrder(OpenIndices(w.s.activeBlocks), ord)
             w1 == IF ~strictMode THEN AutoCloseBlocks(w, unclosedBlocks) ELSE w
         IN Send([w1 EXCEPT !.s.messageDeltaSent = TRUE], ev)

\* handleMessageStop
HandleMessageStop(w, ev) ==
    IF w.s.messageEnded THEN w
    ELSE Send([w EXCEPT !.s.messageEnded = TRUE], ev)

\* handleContentBlockDelta, lines 721-772: the block is started on demand and
\* the original event is forwarded unless the block is stopped
ForwardDelta(w, ev, ord) ==
    LET index == ev.index
        blocks == w.s.activeBlocks
        w1 == IF index \notin DOMAIN blocks \/ ~blocks[index].started
              THEN HandleContentBlockStart(w,
                       BlockStartEvent(index, IF ev.deltaType = "input_json_delta"
                                              THEN "tool_use" ELSE "text"), ord)
              ELSE w
        \* block = ssm.activeBlocks[index]: nil when the start was refused
        known == index \in DOMAIN w1.s.activeBlocks
    IN IF known /\ w1.s.activeBlocks[index].stopped THEN w1
       ELSE Send(w1, ev)

\* handleContentBlockDelta, lines 506-529: the buffer starts with <thinking>
DetectThinkingStart(w, index, ord) ==
    IF ~w.s.inThinking /\ HasPrefix(w.s.thinkingBuffer, thinkingStartTag)
    THEN LET w1 == [w EXCEPT !.s.inThinking = TRUE,
                             !.s.thinkingBuffer = Drop(@, Len(thinkingStartTag))]
         IN IF ~w1.s.thinkingBlockStarted
            THEN HandleContentBlockStart(
                     [w1 EXCEPT !.s.thinkingBlockIndex = index,
                                !.s.thinkingBlockStarted = TRUE],
                     BlockStartEvent(index, "thinking"), ord)
            ELSE w1
    ELSE w

\* handleContentBlockDelta, lines 534-601: </thinking> found at endIdx
CloseThinking(w, endIdx, ord) ==
    LET thinkingContent == Take(w.s.thinkingBuffer, endIdx)
        afterRaw == Drop(w.s.thinkingBuffer, endIdx + Len(thinkingEndTag))
        w1 == IF thinkingContent # <<>>
              THEN Send(w, BlockDeltaEvent(w.s.thinkingBlockIndex, "thinking_delta", thinkingContent))
              ELSE w
        w2 == HandleContentBlockStop(w1, BlockStopEvent(w1.s.thinkingBlockIndex))
        w3 == [w2 EXCEPT !.s.inThinking = FALSE, !.s.thinkingBuffer = <<>>]
        afterThinking == TrimPrefix(TrimPrefix(afterRaw, <<NL, NL>>), <<NL>>)
    IN IF afterThinking # <<>>
       THEN LET w4 == [w3 EXCEPT !.s.textBlockIndexAfterThinking = w3.s.nextBlockIndex]
                w5 == HandleContentBlockStart(w4,
                          BlockStartEvent(w4.s.textBlockIndexAfterThinking, "text"), ord)
                w6 == [w5 EXCEPT !.s.textBlockStartedAfterThinking = TRUE]
            IN Send(w6, BlockDeltaEvent(w6.s.textBlockIndexAfterThinking, "text_delta", afterThinking))
       ELSE w3

\* handleContentBlockDelta, lines 604-645: inside thinking, no end tag yet
StreamThinking(w, index, ord) ==
    LET safeLen0 == Len(w.s.thinkingBuffer) - Len(thinkingEndTag) + 1
    IN IF safeLen0 > 0
       THEN LET safeLen == FindCharBoundary(w.s.thinkingBuffer, safeLen0)
            IN IF safeLen <= 0 THEN w
               ELSE LET safeContent == Take(w.s.thinkingBuffer, safeLen)
                        w1 == [w EXCEPT !.s.thinkingBuffer = Drop(@, safeLen)]
                        w2 == IF ~w1.s.thinkingBlockStarted
                              THEN HandleContentBlockStart(
                                       [w1 EXCEPT !.s.thinkingBlockIndex = index,
                                                  !.s.thinkingBlockStarted = TRUE],
                                       BlockStartEvent(index, "thinking"), ord)
                              ELSE w1
                    IN Send(w2, BlockDeltaEvent(w2.s.thinkingBlockIndex, "thinking_delta", safeContent))
       ELSE w

\* handleContentBlockDelta, lines 650-657: the buffer may end with a partial <thinking>
EndsWithPartialStartTag(buf) ==
    \E i \in 1..(Len(thinkingStartTag) - 1) : HasSuffix(buf, Take(thinkingStartTag, i))

\* handleContentBlockDelta, lines 666-716: text after the thinking block
TextAfterThinking(w, ord) ==
    LET w1 == IF ~w.s.textBlockStartedAfterThinking
              THEN LET wa == [w EXCEPT !.s.textBlockIndexAfterThinking = w.s.nextBlockIndex]
                       wb == HandleContentBlockStart(wa,
                                 BlockStartEvent(wa.s.textBlockIndexAfterThinking, "text"), ord)
                   IN [wb EXCEPT !.s.textBlockStartedAfterThinking = TRUE]
              ELSE w
        textContent == w1.s.thinkingBuffer
        w2 == [w1 EXCEPT !.s.thinkingBuffer = <<>>]
    IN IF textContent # <<>>
       THEN Send(w2, BlockDeltaEvent(w2.s.textBlockIndexAfterThinking, "text_delta", textContent))
       ELSE w2

\* handleContentBlockDelta
HandleContentBlockDelta(w, ev, ord) ==
    IF ev.index = NoIndex THEN w
    ELSE
      LET index == ev.index
          deltaText == IF ev.deltaType = "text_delta" THEN ev.text ELSE <<>>
      IN IF ev.deltaType = "text_delta" /\ deltaText # <<>>
         THEN
           LET w1 == [w EXCEPT !.s.thinkingBuffer = @ \o deltaText]
               w2 == DetectThinkingStart(w1, index, ord)
           IN IF w2.s.inThinking
              THEN LET endIdx == StrIndex(w2.s.thinkingBuffer, thinkingEndTag)
                   IN IF endIdx # -1 THEN CloseThinking(w2, endIdx, ord)
                      ELSE StreamThinking(w2, index, ord)
              ELSE IF ~w2.s.thinkingBlockStarted /\ EndsWithPartialStartTag(w2.s.thinkingBuffer)
              THEN w2
              ELSE LET w3 == IF ~w2.s.thinkingBlockStarted
                             THEN [w2 EXCEPT !.s.thinkingBuffer = <<>>]
                             ELSE w2
                   IN IF w3.s.thinkingBlockStarted /\ ~w3.s.inThinking
                         /\ index = w3.s.thinkingBlockIndex
                      THEN TextAfterThinking(w3, ord)
                      ELSE ForwardDelta(w3, ev, ord)
         ELSE ForwardDelta(w, ev, ord)

\* SSEStateManager.SendEvent
SendEvent(w, ev, ord) ==
    CASE ev.type = "message_start" -> HandleMessageStart(w, ev)
      [] ev.type = "content_block_start" -> HandleContentBlockStart(w, ev, ord)
      [] ev.type = "content_block_delta" -> HandleContentBlockDelta(w, ev, ord)
      [] ev.type = "content_block_stop" -> HandleContentBlockStop(w, ev)
      [] ev.type = "message_delta" -> HandleMessageDelta(w, ev, ord)
      [] ev.type = "message_stop" -> HandleMessageStop(w, ev)
      [] OTHER -> Send(w, ev)

-----------------------------------------------------------------------------
(* StreamProcessorContext and EventStreamProcessor.  The token counters only  *)
(* feed the usage numbers of message_delta and are left out.                  *)

NewStreamProcessorContext ==
    [inThinking |-> FALSE, thinkingPrefixSent |-> FALSE, currentThinkingIndex |-> 0,
     toolUseIdByBlockIndex |-> <<>>, completedToolUseIds |-> {}]

ThinkingPrefixText == thinkingStartTag \o <<NL>>
ThinkingSuffixText == <<NL>> \o thinkingEndTag \o <<NL, NL>>

\* sendThinkingPrefix
SendThinkingPrefix(w, ord) ==
    SendEvent(w, BlockDeltaEvent(0, "text_delta", ThinkingPrefixText), ord)

\* sendThinkingSuffix
SendThinkingSuffix(w, ord) ==
    SendEvent(w, BlockDeltaEvent(0, "text_delta", ThinkingSuffixText), ord)

\* processToolUseStart
ProcessToolUseStart(w, ev) ==
    IF ev.blockType # "tool_use" \/ ev.index < 0 \/ ev.info = NoType THEN w
    ELSE [w EXCEPT !.c.toolUseIdByBlockIndex = (ev.index :> ev.info) @@ @]

\* processToolUseStop
ProcessToolUseStop(w, ev) ==
    IF ev.index < 0 THEN w
    ELSE IF ev.index \in DOMAIN w.c.toolUseIdByBlockIndex
    THEN LET ids == w.c.toolUseIdByBlockIndex
         IN [w EXCEPT !.c.completedToolUseIds = @ \cup {ids[ev.index]},
                      !.c.toolUseIdByBlockIndex =
                          [i \in (DOMAIN ids) \ {ev.index} |-> ids[i]]]
    ELSE w

\* handleThinkingBlockStart
HandleThinkingBlockStart(w, ev, ord) ==
    IF ev.blockType = NoType THEN w
    ELSE IF ev.blockType = "thinking"
    THEN IF ~w.c.inThinking
         THEN [SendThinkingPrefix(w, ord) EXCEPT !.c.inThinking = TRUE,
                   !.c.thinkingPrefixSent = TRUE, !.c.currentThinkingIndex = ev.index]
         ELSE w
    ELSE IF w.c.inThinking
    THEN [SendThinkingSuffix(w, ord) EXCEPT !.c.inThinking = FALSE,
              !.c.thinkingPrefixSent = FALSE]
    ELSE w

\* handleThinkingDelta
HandleThinkingDelta(w, ev, ord) ==
    IF ev.deltaType = "thinking_delta" /\ ~w.c.thinkingPrefixSent
    THEN [SendThinkingPrefix(w, ord) EXCEPT !.c.inThinking = TRUE,
              !.c.thinkingPrefixSent = TRUE, !.c.currentThinkingIndex = ev.index]
    ELSE w

\* handleThinkingBlockStop
HandleThinkingBlockStop(w, ev, ord) ==
    IF w.c.inThinking /\ ev.index = w.c.currentThinkingIndex
    THEN [SendThinkingSuffix(w, ord) EXCEPT !.c.inThinking = FALSE,
              !.c.thinkingPrefixSent = FALSE]
    ELSE w

\* the loop that sends content_block_stop, through the state manager, for
\* every block that is open when the loop starts
RECURSIVE CloseActiveBlocks(_, _, _)
CloseActiveBlocks(w, todo, ord) ==
    IF todo = <<>> THEN w
    ELSE CloseActiveBlocks(SendEvent(w, BlockStopEvent(Head(todo)), ord), Tail(todo), ord)

ContentLengthCanHandle(exceptionType) ==
    exceptionType \in {"ContentLengthExceededException", "CONTENT_LENGTH_EXCEEDS_THRESHOLD"}

ThrottlingCanHandle(exceptionType) == exceptionType = "ThrottlingException"

\* ContentLengthExceptionStrategy.Handle
ContentLengthHandle(w, ord) ==
    LET w1 == CloseActiveBlocks(w, RangeOrder(OpenIndices(w.s.activeBlocks), ord), ord)
        w2 == SendEvent(w1, MessageDeltaEvent("max_tokens"), ord)
    IN SendEvent(w2, MessageStopEvent, ord)

\* ThrottlingExceptionStrategy.Handle
ThrottlingHandle(w, ord) == SendEvent(w, ErrorEvent("overloaded_error"), ord)

\* StopReasonManager.DetermineStopReason after UpdateToolCallStatus
DetermineStopReason(hasActiveTools, hasCompletedTools) ==
    IF hasActiveTools \/ hasCompletedTools THEN "tool_use" ELSE "end_turn"

\* processEvent
ProcessEventBody(w, ev, ord) ==
    LET et == ev.info
        pre == CASE ev.type = "content_block_start" ->
                      HandleThinkingBlockStart(ProcessToolUseStart(w, ev), ev, ord)
                 [] ev.type = "content_block_delta" -> HandleThinkingDelta(w, ev, ord)
                 [] ev.type = "content_block_stop" ->
                      HandleThinkingBlockStop(ProcessToolUseStop(w, ev), ev, ord)
                 [] OTHER -> w
    IN IF ev.type = "exception" /\ et # NoType /\ ContentLengthCanHandle(et)
       THEN ContentLengthHandle(w, ord)
       ELSE IF ev.type = "exception" /\ et # NoType /\ ThrottlingCanHandle(et)
       THEN ThrottlingHandle(w, ord)
       ELSE SendEvent(pre, ev, ord)

\* sendFinalEvents
SendFinalEventsBody(w, ord) ==
    LET w1 == CloseActiveBlocks(w, RangeOrder(OpenIndices(w.s.activeBlocks), ord), ord)
        hasActiveTools == DOMAIN w1.c.toolUseIdByBlockIndex # {}
        hasCompletedTools == w1.c.completedToolUseIds # {}
        stopReason == DetermineStopReason(hasActiveTools, hasCompletedTools)
        w2 == SendEvent(w1, MessageDeltaEvent(stopReason), ord)
    IN SendEvent(w2, MessageStopEvent, ord)

-----------------------------------------------------------------------------
(* What the upstream may deliver *)

Texts ==
    { <<"a">>,
      thinkingStartTag \o <<"b">>,
      <<"c">> \o thinkingEndTag \o <<"d">>,
      <<"<", "t", "h", "i">>,
      <<"n", "k", "i", "n", "g", ">">> }

ExceptionTypes == {"ContentLengthExceededException", "ThrottlingException", "InternalServerException"}

UpstreamEvents ==
    {MessageStartEvent, PingEvent, MessageStopEvent, MessageDeltaEvent("end_turn")}
    \cup {BlockStartEvent(i, bt) : i \in UpIndices, bt \in {"text", "thinking"}}
    \cup {Event("content_block_start", i, "tool_use", NoType, <<>>, "t1") : i \in UpIndices}
    \cup {BlockDeltaEvent(i, "text_delta", t) : i \in UpIndices, t \in Texts}
    \cup {BlockDeltaEvent(i, dt, <<"j">>) : i \in UpIndices, dt \in {"input_json_delta", "thinking_delta"}}
    \cup {BlockStopEvent(i) : i \in UpIndices}
    \cup {ExceptionEvent(et) : et \in ExceptionTypes}

World == [s |-> ssm, c |-> ctx, o |-> out]

\* the block indices a map range of this step may meet
RangeDomain(ev) ==
    OpenIndices(ssm.activeBlocks)
        \cup (IF ev.type = "content_block_start" /\ ev.blockType = "tool_use" /\ ctx.inThinking
              THEN {0, ssm.nextBlockIndex} ELSE {})

SetWorld(w) == /\ ssm' = w.s
               /\ ctx' = w.c
               /\ out' = w.o

-----------------------------------------------------------------------------
(* The stream handler: handleStreamRequestWithRetry / handleGenericStreamRequest *)

SSEInit ==
    /\ ssm = NewSSEStateManager
    /\ ctx = NewStreamProcessorContext
    /\ out = <<>>
    /\ phase = "initial"
    /\ nRead = 0
    /\ upin = <<>>
    /\ clientGone = FALSE

\* sendInitialEvents with createAnthropicStreamEvents
SendInitialEvents ==
    /\ phase = "initial"
    /\ SetWorld(SendEvent(SendEvent(World, MessageStartEvent, <<>>), PingEvent, <<>>))
    /\ phase' = "stream"
    /\ UNCHANGED <<nRead, upin, clientGone, poolVars, convVars, errVars, utfVars, lockVars, toolVars>>

\* one iteration of ProcessEventStream: the next upstream event
ProcessEvent ==
    /\ phase = "stream"
    /\ nRead < MaxEvents
    /\ \E ev \in UpstreamEvents : \E ord \in Perms(RangeDomain(ev)) :
           SetWorld(ProcessEventBody(World, ev, ord))
    /\ nRead' = nRead + 1
    /\ UNCHANGED <<phase, upin, clientGone, poolVars, convVars, errVars, utfVars, lockVars, toolVars>>

\* the upstream body ends (io.EOF or a read error): sendFinalEvents
SendFinalEvents ==
    /\ phase = "stream"
    /\ \E ord \in Perms(OpenIndices(ssm.activeBlocks)) :
           SetWorld(SendFinalEventsBody(World, ord))
    /\ phase' = "done"
    /\ UNCHANGED <<nRead, upin, clientGone, poolVars, convVars, errVars, utfVars, lockVars, toolVars>>

SSENext == SendInitialEvents \/ ProcessEvent \/ SendFinalEvents

\* The same handler with its input recorded, over the upstream events of a
\* plain text answer, a tool call and a content-length truncation.
MaxRecorded == 4

RecordedEvents ==
    {MessageStartEvent, MessageStopEvent, BlockStopEvent(0), BlockStopEvent(1),
     Event("content_block_start", 1, "tool_use", NoType, <<>>, "t1"),
     BlockDeltaEvent(1, "input_json_delta", <<"j">>),
     ExceptionEvent("ContentLengthExceededException")}
    \cup {BlockDeltaEvent(0, "text_delta", t) : t \in Texts}

\* one iteration of ProcessEventStream, the event kept in upin
ProcessRecordedEvent ==
    /\ phase = "stream"
    /\ nRead < MaxRecorded
    /\ \E ev \in RecordedEvents : \E ord \in Perms(RangeDomain(ev)) :
           /\ SetWorld(ProcessEventBody(World, ev, ord))
           /\ upin' = Append(upin, ev)
    /\ nRead' = nRead + 1
    /\ UNCHANGED <<phase, clientGone, poolVars, convVars, errVars, utfVars, lockVars, toolVars>>

RecordedNext == SendInitialEvents \/ ProcessRecordedEvent \/ SendFinalEvents

\* the client cancels or its connection breaks while the answer is streamed:
\* from here on fmt.Fprintf to c.Writer fails; AnthropicStreamSender.SendEvent
\* drops that result and returns nil, and the upstream request was built
\* without the client's context, so the handler is not told
ClientGoesAway ==
    /\ phase = "stream"
    /\ ~clientGone
    /\ clientGone' = TRUE
    /\ UNCHANGED <<ssm, ctx, out, phase, nRead, upin, poolVars, convVars, errVars, utfVars, lockVars, toolVars>>

CancelNext == SSENext \/ ClientGoesAway

-----------------------------------------------------------------------------
(* Bounds of the credential model.  Durations are in clock ticks. *)

\* requests served in one behaviour
MaxRequests == 2
\* length of the observed window
MaxTime == 3
\* config.SessionPoolMaxRetries
SessionPoolMaxRetries == 2
\* config.SessionPoolCooldown
SessionPoolCooldown == 1
\* config.SessionPoolTTL
SessionPoolTTL == 1
\* SESSION_TOKEN_BINDING_TTL
SessionBindingTTL == 1
\* config.TokenCacheTTL
TokenCacheTTL == 1
\* config.RateLimitCooldownDuration
RateLimitCooldownDuration == 1
\* config.RateLimitMaxConsecutiveUse
RateLimitMaxConsecutiveUse == 2
\* config.RateLimitDailyMaxRequests
RateLimitDailyMaxRequests == 3
\* largest quota an account reports
MaxQuota == 2
\* config.SessionPoolMaxSize
SessionPoolMaxSize == 2
\* the 24 hours above which a quota reset time is not believed
MaxCooldown == 4

-----------------------------------------------------------------------------
(* Model names and account levels *)

CanonicalModelSonnet45 == "claude-sonnet-4-5-20250929"
CanonicalModelOpus45 == "claude-opus-4-5-20251101"
CanonicalModelOpus46 == "claude-opus-4-6"
CanonicalModelHaiku45 == "claude-haiku-4-5-20251001"
CanonicalModelSonnet46 == "claude-sonnet-4-6"

ModelAccessControlEnabled == TRUE
ModelAccessUnknownAllowed == TRUE

\* a requested model name, by the substrings ResolveModelID looks for
ModelName(family, version) == [family |-> family, version |-> version]

RequestModels == {ModelName("sonnet", "4-5"), ModelName("opus", "4-5")}

\* config.ResolveModelID
ResolveModelID(model) ==
    CASE model.family = "sonnet" -> [resolvedModel |-> CanonicalModelSonnet45, ok |-> TRUE]
      [] model.family = "opus" /\ model.version = "4-5" ->
            [resolvedModel |-> CanonicalModelOpus45, ok |-> TRUE]
      [] model.family = "opus" -> [resolvedModel |-> CanonicalModelOpus46, ok |-> TRUE]
      [] model.family = "haiku" -> [resolvedModel |-> CanonicalModelHaiku45, ok |-> TRUE]
      [] OTHER -> [resolvedModel |-> "", ok |-> FALSE]

AccountLevels == {"unknown", "free", "pro", "enterprise"}

AllRequestModels ==
    {CanonicalModelSonnet45, CanonicalModelSonnet46, CanonicalModelHaiku45,
     CanonicalModelOpus45, CanonicalModelOpus46}

modelAccessByLevel(level) ==
    CASE level = "free" ->
            {CanonicalModelSonnet45, CanonicalModelSonnet46, CanonicalModelHaiku45}
      [] level = "pro" ->
            {CanonicalModelSonnet45, CanonicalModelSonnet46, CanonicalModelHaiku45,
             CanonicalModelOpus45}
      [] level = "enterprise" ->
            {CanonicalModelSonnet45, CanonicalModelSonnet46, CanonicalModelHaiku45,
             CanonicalModelOpus45, CanonicalModelOpus46}

\* AllowedModelsForLevel
AllowedModelsForLevel(level) ==
    IF level = "unknown" THEN AllRequestModels ELSE modelAccessByLevel(level)

\* IsModelAllowedForLevel
IsModelAllowedForLevel(level, requestedModel) ==
    IF ~ModelAccessControlEnabled THEN TRUE
    ELSE LET r == ResolveModelID(requestedModel)
         IN IF ~r.ok THEN TRUE
            ELSE IF level = "unknown" /\ ModelAccessUnknownAllowed THEN TRUE
            ELSE r.resolvedModel \in
                     AllowedModelsForLevel(IF level = "unknown" THEN "free" ELSE level)

-----------------------------------------------------------------------------
(* RateLimiter *)

configOrder == <<"A", "B", "C">>
Keys == {configOrder[i] : i \in 1..Len(configOrder)}
NoKey == ""

NewRateLimiter ==
    [cooldownUntil |-> [k \in Keys |-> 0], consecutive |-> [k \in Keys |-> 0],
     daily |-> [k \in Keys |-> 0]]

IsTokenInCooldown(r, key, t) == t < r.cooldownUntil[key]

IsDailyLimitExceeded(r, key) == r.daily[key] >= RateLimitDailyMaxRequests

RecordRequest(r, key) ==
    [r EXCEPT !.consecutive[key] = @ + 1, !.daily[key] = @ + 1]

ShouldRotate(r, key) == r.consecutive[key] >= RateLimitMaxConsecutiveUse

ResetTokenCount(r, key) == [r EXCEPT !.consecutive[key] = 0]

RateLimiterMarkTokenCooldown(r, key, t) ==
    [r EXCEPT !.cooldownUntil[key] = t + RateLimitCooldownDuration]

-----------------------------------------------------------------------------
(* TokenManager and SessionTokenBindingManager.  An operation takes the       *)
(* world g = [tm, rl, bind, pools, sel] and the time t and returns the new    *)
(* world, with the returned key and error where it has them.  Access tokens   *)
(* do not expire within the window.                                           *)

NoTime == -1

NewTokenManager == [cache |-> << >>, currentIndex |-> 0, lastRefresh |-> NoTime]

CachedToken(acct, t) ==
    [Available |-> acct.quota, AccountLevel |-> acct.level, CachedAt |-> t]

\* what a selection returned, and what held at that moment
Selection(path, key, model, g, t) ==
    [path |-> path, key |-> key, model |-> model,
     inCooldown |-> IsTokenInCooldown(g.rl, key, t),
     dailyExceeded |-> IsDailyLimitExceeded(g.rl, key),
     level |-> IF key \in DOMAIN g.tm.cache THEN g.tm.cache[key].AccountLevel ELSE "unknown"]

Returned(g, path, key, model, t) ==
    [g EXCEPT !.sel = @ \cup {Selection(path, key, model, g, t)}]

\* what a selection that found no token answered
Refused(g, model, err) ==
    [g EXCEPT !.ref = @ \cup {[model |-> model, err |-> err]}]

\* advanceToNextToken skipping a credential
advanceToNextTokenSkipping(g) ==
    [g EXCEPT !.tm.currentIndex = (@ + 2) % Len(configOrder)]

\* advanceToNextToken
advanceToNextToken(g) ==
    [g EXCEPT !.tm.currentIndex = (@ + 1) % Len(configOrder)]

\* refreshCacheUnlocked
refreshCacheUnlocked(g, t) ==
    [g EXCEPT !.tm.cache = [k \in Keys |-> CachedToken(upstream[k], t)],
              !.tm.lastRefresh = t]

CacheIsStale(g, t) == g.tm.lastRefresh = NoTime \/ t - g.tm.lastRefresh > TokenCacheTTL

\* CachedToken.IsUsable
IsUsable(cached) == cached.Available > 0

\* isCachedTokenModelAllowed
isCachedTokenModelAllowed(cached, requestedModel) ==
    IsModelAllowedForLevel(cached.AccountLevel, requestedModel)

\* GetCurrentTokenKey
GetCurrentTokenKey(g) == configOrder[g.tm.currentIndex + 1]

\* IsTokenAllowedForModel with the tier test removed
IsTokenAllowedForModelUngated(g, tokenKey, requestedModel) == TRUE

\* IsTokenAllowedForModel
IsTokenAllowedForModel(g, tokenKey, requestedModel) ==
    IF ~ModelAccessControlEnabled THEN TRUE
    ELSE IF tokenKey \notin DOMAIN g.tm.cache THEN TRUE
    ELSE IsModelAllowedForLevel(g.tm.cache[tokenKey].AccountLevel, requestedModel)

\* selectNextAvailableTokenForModelUnlocked: the tests of one loop iteration up
\* to the tier test; a token that fails one is skipped without being counted
\* as supporting the model
FailsTierTests(g, key, requestedModel, t) ==
    \/ key \notin DOMAIN g.tm.cache
    \/ t - g.tm.cache[key].CachedAt > TokenCacheTTL
    \/ ~isCachedTokenModelAllowed(g.tm.cache[key], requestedModel)

\* the tests after the tier test: cooldown, daily limit, usability
FailsUseTests(g, key, t) ==
    \/ IsTokenInCooldown(g.rl, key, t)
    \/ IsDailyLimitExceeded(g.rl, key)
    \/ ~IsUsable(g.tm.cache[key])

\* SelectLoop that gives up when the entry under the cursor is not usable
SelectLoopCursorOnly(g, requestedModel, tried, modelSupported, t) ==
    LET key == GetCurrentTokenKey(g)
        tierFail == FailsTierTests(g, key, requestedModel, t)
    IN IF ~tierFail /\ ~FailsUseTests(g, key, t)
       THEN [g |-> g, key |-> key, modelSupported |-> TRUE]
       ELSE [g |-> g, key |-> NoKey, modelSupported |-> TRUE]

\* selectNextAvailableTokenForModelUnlocked: the loop over configOrder
RECURSIVE SelectLoop(_, _, _, _, _)
SelectLoop(g, requestedModel, tried, modelSupported, t) ==
    IF tried >= Len(configOrder)
    THEN [g |-> g, key |-> NoKey, modelSupported |-> modelSupported]
    ELSE LET key == GetCurrentTokenKey(g)
             tierFail == FailsTierTests(g, key, requestedModel, t)
         IN IF ~tierFail /\ ~FailsUseTests(g, key, t)
            THEN [g |-> g, key |-> key, modelSupported |-> TRUE]
            ELSE SelectLoop(advanceToNextToken(g), requestedModel, tried + 1,
                            modelSupported \/ ~tierFail, t)

\* selectNextAvailableTokenForModelUnlocked
selectNextAvailableTokenForModelUnlocked(g, requestedModel, t) ==
    SelectLoop(g, requestedModel, 0, FALSE, t)

Binding(tokenKey, t) == [tokenKey |-> tokenKey, lastAccessedAt |-> t]

\* SessionTokenBindingManager.GetSessionToken
GetSessionToken(g, sessionID, t) ==
    IF sessionID \notin DOMAIN g.bind THEN [g |-> g, key |-> NoKey, bound |-> FALSE]
    ELSE IF t - g.bind[sessionID].lastAccessedAt > SessionBindingTTL
    THEN [g |-> [g EXCEPT !.bind = [s \in (DOMAIN g.bind) \ {sessionID} |-> g.bind[s]]],
          key |-> NoKey, bound |-> FALSE]
    ELSE [g |-> [g EXCEPT !.bind[sessionID].lastAccessedAt = t],
          key |-> g.bind[sessionID].tokenKey, bound |-> TRUE]

\* SessionTokenBindingManager.UnbindSession
UnbindSession(g, sessionID) ==
    [g EXCEPT !.bind = [s \in (DOMAIN g.bind) \ {sessionID} |-> g.bind[s]]]

\* SessionTokenBindingManager.BindSessionToken
BindSessionToken(g, sessionID, tokenKey, t) ==
    [g EXCEPT !.bind = (sessionID :> Binding(tokenKey, t)) @@ @]

\* BindSelected with the generic error for every failed selection
BindSelectedUntyped(r, sessionID, requestedModel, t) ==
    IF r.key = NoKey
    THEN [g |-> Refused(r.g, requestedModel, "NoAvailableToken"), key |-> NoKey,
          err |-> "NoAvailableToken"]
    ELSE [g |-> BindSessionToken(Returned(r.g, "global", r.key, requestedModel, t),
                                 sessionID, r.key, t),
          key |-> r.key, err |-> ""]

\* GetTokenWithFingerprintForSessionAndModel after the selection r: rate
\* limiter bookkeeping, rotation, reservation and binding
BindSelected(r, sessionID, requestedModel, t) ==
    LET g2 == Returned(r.g, "global", r.key, requestedModel, t)
        g3 == [g2 EXCEPT !.rl = RecordRequest(@, r.key)]
        g4 == IF ShouldRotate(g3.rl, r.key)
              THEN advanceToNextToken([g3 EXCEPT !.rl = ResetTokenCount(@, r.key)])
              ELSE g3
        g5 == [g4 EXCEPT !.tm.cache[r.key].Available = IF @ > 0 THEN @ - 1 ELSE @]
        err == IF ~r.modelSupported THEN "ModelNotFound" ELSE "NoAvailableToken"
    IN IF r.key = NoKey
       THEN [g |-> Refused(r.g, requestedModel, err), key |-> NoKey, err |-> err]
       ELSE [g |-> BindSessionToken(g5, sessionID, r.key, t), key |-> r.key, err |-> ""]

\* GetTokenWithFingerprintForSessionAndModel after the binding lookup: refresh
\* a stale cache and select from the global pool
SelectAndBind(g, sessionID, requestedModel, t) ==
    BindSelected(selectNextAvailableTokenForModelUnlocked(
                     IF CacheIsStale(g, t) THEN refreshCacheUnlocked(g, t) ELSE g,
                     requestedModel, t),
                 sessionID, requestedModel, t)

\* GetTokenWithFingerprintForSessionAndModel
GetTokenWithFingerprintForSessionAndModel(g, sessionID, requestedModel, t) ==
    LET b == GetSessionToken(g, sessionID, t)
    IN IF b.bound /\ IsTokenAllowedForModel(b.g, b.key, requestedModel)
       THEN [g |-> Returned(b.g, "binding", b.key, requestedModel, t), key |-> b.key, err |-> ""]
       ELSE SelectAndBind(IF b.bound THEN UnbindSession(b.g, sessionID) ELSE b.g,
                          sessionID, requestedModel, t)

\* TokenManager.MarkTokenFailed
MarkTokenFailed(g, tokenKey, t) ==
    advanceToNextToken([g EXCEPT !.rl = RateLimiterMarkTokenCooldown(@, tokenKey, t)])

\* AuthService.MarkTokenFailed
AuthServiceMarkTokenFailed(g, t) == MarkTokenFailed(g, GetCurrentTokenKey(g), t)

-----------------------------------------------------------------------------
(* SessionTokenPoolManager *)

TokenStatusAvailable == "available"
TokenStatusCooldown == "cooldown"

PooledToken(tokenKey) ==
    [TokenKey |-> tokenKey, Status |-> TokenStatusAvailable, CooldownUntil |-> 0,
     FailCount |-> 0, SuccessCount |-> 0]

SessionTokenPool(primary, t) ==
    [PrimaryToken |-> primary, BackupTokens |-> << >>, LastAccessedAt |-> t]

BackupSessionID(sessionID) == sessionID \o "_backup"

\* tokenSupportsModel
tokenSupportsModel(g, tokenKey, requestedModel) ==
    IsTokenAllowedForModel(g, tokenKey, requestedModel)

\* tokenIsDisabled
tokenIsDisabled(tokenKey) == tokenKey \in disabled

\* the test GetAvailableTokenForModel and GetNextAvailableTokenForModel make
\* of the primary and of each backup
PooledTokenReady(g, tok, requestedModel, t) ==
    /\ tok.Status = TokenStatusAvailable
    /\ t > tok.CooldownUntil
    /\ tokenSupportsModel(g, tok.TokenKey, requestedModel)
    /\ ~tokenIsDisabled(tok.TokenKey)

\* allocatePrimaryTokenForModel, given what the token manager returned
allocatePrimaryTokenForModel(r, sessionID, t) ==
    IF r.err # "" THEN [g |-> r.g, err |-> r.err]
    ELSE [g |-> [r.g EXCEPT !.pools =
                    (sessionID :> SessionTokenPool(PooledToken(r.key), t)) @@ @],
          err |-> ""]

\* GetOrCreatePoolForModel that gives an existing pool the token under the
\* cursor as its primary
GetOrCreatePoolForModelReassigning(g, sessionID, requestedModel, t) ==
    IF sessionID \in DOMAIN g.pools
    THEN [g |-> [g EXCEPT !.pools[sessionID].LastAccessedAt = t,
                          !.pools[sessionID].PrimaryToken = PooledToken(GetCurrentTokenKey(g))],
          err |-> ""]
    ELSE allocatePrimaryTokenForModel(
             GetTokenWithFingerprintForSessionAndModel(g, sessionID, requestedModel, t),
             sessionID, t)

\* GetOrCreatePoolForModel
GetOrCreatePoolForModel(g, sessionID, requestedModel, t) ==
    IF sessionID \in DOMAIN g.pools
    THEN [g |-> [g EXCEPT !.pools[sessionID].LastAccessedAt = t], err |-> ""]
    ELSE allocatePrimaryTokenForModel(
             GetTokenWithFingerprintForSessionAndModel(g, sessionID, requestedModel, t),
             sessionID, t)

BackupKeys(pool) == {pool.BackupTokens[i].TokenKey : i \in DOMAIN pool.BackupTokens}

\* AppendBackup without the test for a token the pool already holds
AppendBackupUnchecked(r, sessionID, requestedModel, t) ==
    IF r.err # "" THEN [g |-> r.g, key |-> NoKey, err |-> r.err]
    ELSE [g |-> Returned([r.g EXCEPT !.pools[sessionID].BackupTokens =
                             Append(@, PooledToken(r.key))],
                         "subpool", r.key, requestedModel, t),
          key |-> r.key, err |-> ""]

\* TryAllocateBackupTokenForModel, given what the token manager returned
AppendBackup(r, sessionID, requestedModel, t) ==
    LET pool == r.g.pools[sessionID]
    IN IF r.err # "" THEN [g |-> r.g, key |-> NoKey, err |-> r.err]
       ELSE IF r.key = pool.PrimaryToken.TokenKey \/ r.key \in BackupKeys(pool)
       THEN [g |-> r.g, key |-> NoKey, err |-> "DuplicateToken"]
       ELSE [g |-> Returned([r.g EXCEPT !.pools[sessionID].BackupTokens =
                                Append(@, PooledToken(r.key))],
                            "subpool", r.key, requestedModel, t),
             key |-> r.key, err |-> ""]

\* TryAllocateBackupTokenForModel without the size test
TryAllocateBackupTokenForModelUncapped(g, sessionID, requestedModel, t) ==
    IF sessionID \notin DOMAIN g.pools THEN [g |-> g, key |-> NoKey, err |-> "NoPool"]
    ELSE AppendBackup(GetTokenWithFingerprintForSessionAndModel(
                          g, BackupSessionID(sessionID), requestedModel, t),
                      sessionID, requestedModel, t)

\* TryAllocateBackupTokenForModel
TryAllocateBackupTokenForModel(g, sessionID, requestedModel, t) ==
    IF sessionID \notin DOMAIN g.pools THEN [g |-> g, key |-> NoKey, err |-> "NoPool"]
    ELSE IF 1 + Len(g.pools[sessionID].BackupTokens) >= SessionPoolMaxSize
    THEN [g |-> g, key |-> NoKey, err |-> "PoolFull"]
    ELSE AppendBackup(GetTokenWithFingerprintForSessionAndModel(
                          g, BackupSessionID(sessionID), requestedModel, t),
                      sessionID, requestedModel, t)

\* the first backup, in slice order, that passes the test and is not excluded
FirstReadyBackup(g, pool, exclude, requestedModel, t) ==
    LET ready == {i \in DOMAIN pool.BackupTokens :
                     /\ pool.BackupTokens[i].TokenKey # exclude
                     /\ PooledTokenReady(g, pool.BackupTokens[i], requestedModel, t)}
    IN IF ready = {} THEN 0 ELSE CHOOSE i \in ready : \A j \in ready : i <= j

\* the scan of primary and backups shared by the two lookups
ScanPool(g, sessionID, exclude, requestedModel, t) ==
    LET pool == g.pools[sessionID]
        b == FirstReadyBackup(g, pool, exclude, requestedModel, t)
    IN IF pool.PrimaryToken.TokenKey # exclude
          /\ PooledTokenReady(g, pool.PrimaryToken, requestedModel, t)
       THEN [g |-> Returned(g, "subpool", pool.PrimaryToken.TokenKey, requestedModel, t),
             key |-> pool.PrimaryToken.TokenKey, err |-> ""]
       ELSE IF b # 0
       THEN [g |-> Returned(g, "subpool", pool.BackupTokens[b].TokenKey, requestedModel, t),
             key |-> pool.BackupTokens[b].TokenKey, err |-> ""]
       ELSE TryAllocateBackupTokenForModel(g, sessionID, requestedModel, t)

\* GetAvailableTokenForModel, given what GetOrCreatePoolForModel returned
ScanCreatedPool(c, sessionID, requestedModel, t) ==
    IF c.err # "" THEN [g |-> c.g, key |-> NoKey, err |-> c.err]
    ELSE ScanPool(c.g, sessionID, NoKey, requestedModel, t)

\* GetAvailableTokenForModel
GetAvailableTokenForModel(g, sessionID, requestedModel, t) ==
    ScanCreatedPool(GetOrCreatePoolForModel(g, sessionID, requestedModel, t),
                    sessionID, requestedModel, t)

\* GetNextAvailableTokenForModel
GetNextAvailableTokenForModel(g, sessionID, currentTokenKey, requestedModel, t) ==
    IF sessionID \notin DOMAIN g.pools THEN [g |-> g, key |-> NoKey, err |-> "NoPool"]
    ELSE ScanPool(g, sessionID, currentTokenKey, requestedModel, t)

\* the update MarkTokenCooldown and MarkTokenSuccess apply to the primary if
\* its key matches, else to the first backup whose key matches
UpdatePooledToken(g, sessionID, tokenKey, Update(_)) ==
    IF sessionID \notin DOMAIN g.pools THEN g
    ELSE LET pool == g.pools[sessionID]
             hits == {i \in DOMAIN pool.BackupTokens : pool.BackupTokens[i].TokenKey = tokenKey}
         IN IF pool.PrimaryToken.TokenKey = tokenKey
            THEN [g EXCEPT !.pools[sessionID].PrimaryToken = Update(@)]
            ELSE IF hits # {}
            THEN LET i == CHOOSE i \in hits : \A j \in hits : i <= j
                 IN [g EXCEPT !.pools[sessionID].BackupTokens[i] = Update(@)]
            ELSE g

\* SessionTokenPoolManager.MarkTokenCooldown
MarkTokenCooldown(g, sessionID, tokenKey, cooldownDuration, t) ==
    LET d == IF cooldownDuration = 0 THEN SessionPoolCooldown ELSE cooldownDuration
        Cool(tok) == [tok EXCEPT !.Status = TokenStatusCooldown, !.CooldownUntil = t + d,
                                 !.FailCount = @ + 1]
    IN UpdatePooledToken(g, sessionID, tokenKey, Cool)

\* SessionTokenPoolManager.MarkTokenSuccess
MarkTokenSuccess(g, sessionID, tokenKey) ==
    LET Ok(tok) == [tok EXCEPT !.SuccessCount = @ + 1, !.FailCount = 0]
    IN UpdatePooledToken(g, sessionID, tokenKey, Ok)

\* cleanup that also deletes a pool last accessed exactly one TTL ago
cleanupEager(g, t) ==
    LET keep == {sid \in DOMAIN g.pools : t - g.pools[sid].LastAccessedAt < SessionPoolTTL}
    IN [g EXCEPT !.pools = [sid \in keep |-> g.pools[sid]]]

\* SessionTokenPoolManager.cleanup
cleanup(g, t) ==
    LET keep == {sid \in DOMAIN g.pools : ~(t - g.pools[sid].LastAccessedAt > SessionPoolTTL)}
    IN [g EXCEPT !.pools = [sid \in keep |-> g.pools[sid]]]

\* CalculateCooldownDuration that believes every timestamp in the future
CalculateCooldownDurationUnclamped(quotaResetTimestamp, defaultDuration, t) ==
    IF quotaResetTimestamp > 0 /\ quotaResetTimestamp - t > 0
    THEN quotaResetTimestamp - t
    ELSE defaultDuration

\* CalculateCooldownDuration: quotaResetTimestamp is 0 when the body has none
\* or cannot be parsed
CalculateCooldownDuration(quotaResetTimestamp, defaultDuration, t) ==
    IF quotaResetTimestamp > 0 /\ quotaResetTimestamp - t > 0
       /\ quotaResetTimestamp - t < MaxCooldown
    THEN quotaResetTimestamp - t
    ELSE defaultDuration

-----------------------------------------------------------------------------
(* The /v1/messages route and the request executors *)

Sessions == {"s1"}

SessionPoolEnabled == TRUE

TransportError == 0
UpstreamStatuses == {200, 403, 429, 502, 503, 504}

Response(status, code) == [status |-> status, code |-> code]

\* CodeWhispererErrorBody as json.Unmarshal leaves it: whether the body parsed,
\* and the reason and message fields as sequences of words
CodeWhispererErrorBody(parsed, Reason, Message) ==
    [parsed |-> parsed, Reason |-> Reason, Message |-> Message]

\* a body that is not JSON: Unmarshal fails and leaves both fields empty
NoBody == CodeWhispererErrorBody(FALSE, << >>, << >>)

\* strings.Contains for a word in a text
Contains(text, word) == \E i \in DOMAIN text : text[i] = word

ClaudeErrorResponse(Type, Code, StopReason, HTTPStatus) ==
    [Type |-> Type, Code |-> Code, StopReason |-> StopReason, HTTPStatus |-> HTTPStatus]

MapResult(response, ShouldMarkTokenFail) ==
    [Response |-> response, ShouldMarkTokenFail |-> ShouldMarkTokenFail]

\* ContentLengthExceedsStrategy.CanHandle, also the test ValidationErrorStrategy
\* uses to step aside
IsContentLengthExceeds(statusCode, responseBody) ==
    /\ statusCode = 400
    /\ responseBody.parsed
    /\ responseBody.Reason = <<"CONTENT_LENGTH_EXCEEDS_THRESHOLD">>

PaymentRequiredCanHandle(statusCode, responseBody) ==
    /\ statusCode = 402
    /\ responseBody.parsed
    /\ \/ Contains(responseBody.Reason, "MONTHLY_REQUEST_COUNT")
       \/ Contains(responseBody.Message, "monthly")
       \/ Contains(responseBody.Message, "quota")

\* the status-only mapping: every status is an api_error passed through
MapCodeWhispererErrorDefaultOnly(statusCode, responseBody) ==
    IF statusCode # 200
    THEN MapResult(ClaudeErrorResponse("error", "api_error", "", statusCode), FALSE)
    ELSE MapResult(ClaudeErrorResponse("error", "unknown_error", "", statusCode), FALSE)

\* ErrorMapper.MapCodeWhispererError: the first strategy of NewErrorMapper's
\* list whose CanHandle accepts the status and body maps the error
MapCodeWhispererError(statusCode, responseBody) ==
    IF IsContentLengthExceeds(statusCode, responseBody)
    THEN MapResult(ClaudeErrorResponse("message_delta", "", "max_tokens", 200), FALSE)
    ELSE IF PaymentRequiredCanHandle(statusCode, responseBody)
    THEN MapResult(ClaudeErrorResponse("error", "rate_limited", "", 429), TRUE)
    ELSE IF statusCode = 403
    THEN MapResult(ClaudeErrorResponse("error", "unauthorized", "", 401), TRUE)
    ELSE IF statusCode = 429
    THEN MapResult(ClaudeErrorResponse("error", "rate_limited", "", 429), FALSE)
    ELSE IF statusCode = 400 /\ ~IsContentLengthExceeds(statusCode, responseBody)
    THEN MapResult(ClaudeErrorResponse("error", "invalid_request_error", "", 400), FALSE)
    ELSE IF statusCode = 503
    THEN MapResult(ClaudeErrorResponse("error", "overloaded_error", "", 503), FALSE)
    ELSE IF statusCode = 500
    THEN MapResult(ClaudeErrorResponse("error", "api_error", "", 500), FALSE)
    ELSE IF statusCode # 200
    THEN MapResult(ClaudeErrorResponse("error", "api_error", "", statusCode), FALSE)
    ELSE MapResult(ClaudeErrorResponse("error", "unknown_error", "", statusCode), FALSE)

\* sendStandardError: the HTTP status and the error type written to the client
StandardError(claudeError) == Response(claudeError.HTTPStatus, claudeError.Code)

\* the response written when no token could be acquired
TokenErrorResponse(err) ==
    IF err = "ModelNotFound" THEN Response(400, "model_not_found")
    ELSE Response(500, "internal_error")

Idle ==
    [phase |-> "idle", session |-> "", model |-> ModelName("", ""), stream |-> FALSE,
     retry |-> 0, currentTokenKey |-> NoKey, tokenInfo |-> NoKey, attempts |-> << >>,
     quotaResetTimestamp |-> 0, outcome |-> ""]

Finished(o, outcome) == [o EXCEPT !.phase = "done", !.outcome = outcome]

G == [tm |-> tm, rl |-> rl, bind |-> bindings, pools |-> pools, sel |-> {}, ref |-> {}]

SetG(g) ==
    /\ tm' = g.tm
    /\ rl' = g.rl
    /\ bindings' = g.bind
    /\ pools' = g.pools
    /\ selected' = g.sel
    /\ refused' = g.ref

Accounts == [level : {"unknown", "free", "pro"}, quota : 1..MaxQuota]

PoolConstruct ==
    /\ tm = NewTokenManager
    /\ rl = NewRateLimiter
    /\ bindings = << >>
    /\ pools = << >>
    /\ now = 1
    /\ orch = Idle
    /\ client = << >>
    /\ selected = {}
    /\ refused = {}
    /\ nReq = 0

PoolInit ==
    /\ PoolConstruct
    /\ upstream \in [Keys -> Accounts]
    \* the third account is on a known tier with a single request left, and
    \* only the first account may be disabled
    /\ upstream[configOrder[3]].level \in {"free", "pro"}
    /\ upstream[configOrder[3]].quota = 1
    /\ disabled \in SUBSET {configOrder[1]}

\* the route after GetTokenAndBody returned r: an error response, or the
\* handler for the kind of request
Dispatch(r, sessionID, model, stream) ==
    LET o == [Idle EXCEPT !.session = sessionID, !.model = model, !.stream = stream,
                          !.tokenInfo = r.key]
    IN /\ SetG(r.g)
       /\ IF r.err # ""
          THEN /\ orch' = Finished(o, "token_error")
               /\ client' = <<TokenErrorResponse(r.err)>>
          ELSE /\ orch' = [o EXCEPT !.phase = IF stream /\ SessionPoolEnabled
                                              THEN "acquire" ELSE "call"]
               /\ client' = << >>

\* RequestContext.GetTokenAndBody, then the route's choice of handler
ReceiveRequest ==
    /\ orch.phase \in {"idle", "done"}
    /\ nReq < MaxRequests
    /\ \E sessionID \in Sessions, model \in RequestModels, stream \in BOOLEAN :
          Dispatch(GetTokenWithFingerprintForSessionAndModel(G, sessionID, model, now),
                   sessionID, model, stream)
    /\ nReq' = nReq + 1
    /\ UNCHANGED <<upstream, disabled, now, sseVars, convVars, errVars, utfVars, lockVars, toolVars>>

\* executeCodeWhispererRequestWithRetry: what the loop does with the token or
\* the error the pool manager returned
TokenAcquired(r) ==
    LET o == [orch EXCEPT !.currentTokenKey = r.key]
    IN /\ SetG(r.g)
       /\ IF r.err = "" THEN orch' = [o EXCEPT !.phase = "call"] /\ UNCHANGED client
          ELSE /\ orch' = Finished(o, "token_error")
               /\ client' = IF r.err = "ModelNotFound" \/ orch.retry = 0
                            THEN Append(client, TokenErrorResponse(r.err))
                            ELSE client

\* executeCodeWhispererRequestWithRetry: the head of one loop iteration
AcquireToken ==
    /\ orch.phase = "acquire"
    /\ TokenAcquired(IF orch.retry = 0
                     THEN GetAvailableTokenForModel(G, orch.session, orch.model, now)
                     ELSE GetNextAvailableTokenForModel(G, orch.session, orch.currentTokenKey,
                                                        orch.model, now))
    /\ UNCHANGED <<upstream, disabled, now, nReq, sseVars, convVars, errVars, utfVars, lockVars, toolVars>>

\* handleCodeWhispererError for a status other than 200
handleCodeWhispererError(g, statusCode, t) ==
    LET result == MapCodeWhispererError(statusCode, NoBody)
    IN [g |-> IF result.ShouldMarkTokenFail THEN AuthServiceMarkTokenFailed(g, t) ELSE g,
        response |-> StandardError(result.Response)]

Attempt(key, status) == [key |-> key, status |-> status]

\* executeCodeWhispererRequestWithRetry: the rest of the iteration, from the
\* upstream's answer on
RetryLoopResponse(status, quotaResetTimestamp, cancelled) ==
    LET o == [orch EXCEPT !.attempts = Append(@, Attempt(orch.currentTokenKey, status)),
                          !.quotaResetTimestamp = quotaResetTimestamp]
        cooldown == CalculateCooldownDuration(quotaResetTimestamp, SessionPoolCooldown, now)
        e == handleCodeWhispererError(G, status, now)
    IN CASE status = TransportError ->
               /\ SetG(G)
               /\ orch' = Finished(o, "transport_error")
               /\ client' = Append(client, Response(500, "internal_error"))
         [] status = 429 ->
               /\ SetG(MarkTokenCooldown(G, orch.session, orch.currentTokenKey, cooldown, now))
               /\ IF orch.retry >= SessionPoolMaxRetries
                  THEN /\ orch' = Finished(o, "max_retries")
                       /\ client' = Append(client, Response(429, "rate_limited"))
                  ELSE IF cancelled
                  THEN orch' = Finished(o, "cancelled") /\ UNCHANGED client
                  ELSE /\ orch' = [o EXCEPT !.phase = "acquire", !.retry = @ + 1]
                       /\ UNCHANGED client
         [] status \notin {TransportError, 429, 200} ->
               /\ SetG(e.g)
               /\ orch' = Finished(o, "upstream_error")
               /\ client' = Append(client, e.response)
         [] status = 200 ->
               /\ SetG(MarkTokenSuccess(G, orch.session, orch.currentTokenKey))
               /\ orch' = Finished(o, "success")
               /\ client' = Append(client, Response(200, "ok"))

\* executeCodeWhispererRequest, as handleNonStreamRequest calls it
SingleResponse(status) ==
    LET o == [orch EXCEPT !.attempts = Append(@, Attempt(orch.tokenInfo, status))]
        e == handleCodeWhispererError(G, status, now)
    IN CASE status = TransportError ->
               /\ SetG(G)
               /\ orch' = Finished(o, "transport_error")
               /\ client' = Append(client, Response(500, "internal_error"))
         [] status \notin {TransportError, 200} ->
               /\ SetG(e.g)
               /\ orch' = Finished(o, "upstream_error")
               /\ client' = Append(client, e.response)
         [] status = 200 ->
               /\ SetG(G)
               /\ orch' = Finished(o, "success")
               /\ client' = Append(client, Response(200, "ok"))

\* utils.DoRequest returns
UpstreamResponds ==
    /\ orch.phase = "call"
    /\ \E status \in UpstreamStatuses \cup {TransportError} :
          IF orch.stream /\ SessionPoolEnabled
          THEN \E quotaResetTimestamp \in {0, now, now + 2, now + MaxCooldown},
                  cancelled \in BOOLEAN :
                   /\ (status # 429 => quotaResetTimestamp = 0 /\ ~cancelled)
                   /\ RetryLoopResponse(status, quotaResetTimestamp, cancelled)
          ELSE SingleResponse(status)
    /\ UNCHANGED <<upstream, disabled, now, nReq, sseVars, convVars, errVars, utfVars, lockVars, toolVars>>

\* cleanupLoop: the ticker fires
Cleanup ==
    /\ SetG(cleanup(G, now))
    /\ UNCHANGED <<upstream, disabled, now, orch, client, nReq, sseVars, convVars, errVars, utfVars, lockVars, toolVars>>

\* time passes
Tick ==
    /\ now < MaxTime
    /\ now' = now + 1
    /\ selected' = {}
    /\ refused' = {}
    /\ UNCHANGED <<tm, rl, bindings, pools, upstream, disabled, orch, client, nReq, sseVars, convVars, errVars, utfVars, lockVars, toolVars>>

PoolNext == ReceiveRequest \/ AcquireToken \/ UpstreamResponds \/ Cleanup \/ Tick

\* a concurrent request of the same session fails over: the pool's lock is held
\* from the size test to the append, so the call is one step
PeerFailover ==
    /\ \E sessionID \in Sessions, currentTokenKey \in Keys, model \in RequestModels :
          SetG(GetNextAvailableTokenForModel(G, sessionID, currentTokenKey, model, now).g)
    /\ UNCHANGED <<upstream, disabled, now, orch, client, nReq, sseVars, convVars, errVars, utfVars, lockVars, toolVars>>

FailoverNext == PoolNext \/ PeerFailover

-----------------------------------------------------------------------------
(* converter.BuildCodeWhispererRequest: the history built from the request's  *)
(* messages and the pairing of tool results with tool uses.  Message text,    *)
(* images, tool definitions and the system prompt are left out.               *)

MaxMessages == 4
MaxBlocks == 2
ToolIds == {"t1", "t2"}

SeqsUpTo(S, n) == UNION {[1..k -> S] : k \in 0..n}

\* a message of the request, by the tool blocks the extractors find in it
AnthropicRequestMessage(role, toolUses, toolResults) ==
    [role |-> role, toolUses |-> toolUses, toolResults |-> toolResults]

Messages ==
    {AnthropicRequestMessage("user", << >>, rs) : rs \in SeqsUpTo(ToolIds, MaxBlocks)}
    \cup {AnthropicRequestMessage("assistant", us, << >>) : us \in SeqsUpTo(ToolIds, MaxBlocks)}

HistoryUserMessage(toolResults) ==
    [kind |-> "user", ToolUses |-> << >>, ToolResults |-> toolResults]

HistoryAssistantMessage(toolUses) ==
    [kind |-> "assistant", ToolUses |-> toolUses, ToolResults |-> << >>]

\* the tool results of the buffered user messages, in order
RECURSIVE allToolResults(_)
allToolResults(userMessagesBuffer) ==
    IF userMessagesBuffer = << >> THEN << >>
    ELSE Head(userMessagesBuffer).toolResults \o allToolResults(Tail(userMessagesBuffer))

\* the buffered user messages merged into one history entry, if there are any
FlushUserMessages(history, userMessagesBuffer) ==
    IF userMessagesBuffer = << >> THEN history
    ELSE Append(history, HistoryUserMessage(allToolResults(userMessagesBuffer)))

\* the loop over all messages but the last, then the trailing user messages
\* with their placeholder assistant reply
RECURSIVE HistoryLoop(_, _, _, _)
HistoryLoop(messages, i, userMessagesBuffer, history) ==
    IF i > Len(messages) - 1
    THEN IF userMessagesBuffer = << >> THEN history
         ELSE Append(FlushUserMessages(history, userMessagesBuffer),
                     HistoryAssistantMessage(<< >>))
    ELSE HistoryLoop(messages, i + 1,
                     IF messages[i].role = "user"
                     THEN Append(userMessagesBuffer, messages[i]) ELSE << >>,
                     IF messages[i].role = "user" THEN history
                     ELSE Append(FlushUserMessages(history, userMessagesBuffer),
                                 HistoryAssistantMessage(messages[i].toolUses)))

BuildHistory(messages) ==
    IF Len(messages) > 1 THEN HistoryLoop(messages, 1, << >>, << >>) ELSE << >>

Range(seq) == {seq[i] : i \in DOMAIN seq}

allToolUseIDs(history) ==
    UNION {Range(history[i].ToolUses) : i \in DOMAIN history} \ {""}

historyToolResultIDs(history) ==
    UNION {Range(history[i].ToolResults) : i \in DOMAIN history} \ {""}

\* validateToolPairing: the loop over the current tool results
RECURSIVE FilterResults(_, _, _, _)
FilterResults(toolResults, k, unpairedToolUseIDs, filteredResults) ==
    IF k > Len(toolResults)
    THEN [filteredResults |-> filteredResults, unpairedToolUseIDs |-> unpairedToolUseIDs]
    ELSE FilterResults(toolResults, k + 1,
                       unpairedToolUseIDs \ {toolResults[k]},
                       IF toolResults[k] # "" /\ toolResults[k] \in unpairedToolUseIDs
                       THEN Append(filteredResults, toolResults[k])
                       ELSE filteredResults)

validateToolPairing(history, toolResults) ==
    IF Len(toolResults) = 0
    THEN [filteredResults |-> << >>, unpairedToolUseIDs |-> {}]
    ELSE FilterResults(toolResults, 1,
                       allToolUseIDs(history) \ historyToolResultIDs(history), << >>)

removeOrphanedToolUses(history, orphanedToolUseIDs) ==
    [i \in DOMAIN history |->
        IF history[i].kind = "assistant"
        THEN [history[i] EXCEPT
                 !.ToolUses = SelectSeq(@, LAMBDA id : id \notin orphanedToolUseIDs)]
        ELSE history[i]]

Envelope(history, toolResults) ==
    [built |-> TRUE, History |-> history, ToolResults |-> toolResults]

NoEnvelope == [built |-> FALSE, History |-> << >>, ToolResults |-> << >>]

\* the pairing step of BuildCodeWhispererRequest, given the history and the
\* tool results of the last message
PairTools(history, currentToolResults, v) ==
    IF Len(currentToolResults) > 0
    THEN Envelope(IF v.unpairedToolUseIDs # {}
                  THEN removeOrphanedToolUses(history, v.unpairedToolUseIDs)
                  ELSE history,
                  v.filteredResults)
    ELSE Envelope(history, << >>)

currentToolResultsOf(messages) ==
    IF messages[Len(messages)].role = "user"
    THEN messages[Len(messages)].toolResults ELSE << >>

BuildCodeWhispererRequest(messages) ==
    PairTools(BuildHistory(messages), currentToolResultsOf(messages),
              validateToolPairing(BuildHistory(messages), currentToolResultsOf(messages)))

ConvConstruct ==
    /\ request = << >>
    /\ envelope = NoEnvelope

ConvInit ==
    /\ request \in UNION {[1..n -> Messages] : n \in 1..MaxMessages}
    /\ envelope = NoEnvelope

BuildRequest ==
    /\ ~envelope.built
    /\ envelope' = BuildCodeWhispererRequest(request)
    /\ UNCHANGED <<request, sseVars, poolVars, errVars, utfVars, lockVars, toolVars>>

ConvNext == BuildRequest

-----------------------------------------------------------------------------
(* The error mapper applied to one upstream answer *)

MaxWords == 2

ErrorStatuses == {400, 401, 402, 403, 404, 429, 500, 502, 503}
ReasonWords == {"CONTENT_LENGTH_EXCEEDS_THRESHOLD", "MONTHLY_REQUEST_COUNT", "THROTTLED"}
MessageWords == {"monthly", "quota", "denied"}

WordsOver(S) == UNION {[1..n -> S] : n \in 0..MaxWords}

ErrorBodies ==
    {NoBody} \cup {CodeWhispererErrorBody(TRUE, r, m) :
                       r \in WordsOver(ReasonWords), m \in WordsOver(MessageWords)}

NoReply == [statusCode |-> 200, body |-> NoBody]
NoResult == MapResult(ClaudeErrorResponse("", "", "", 0), FALSE)

ErrConstruct ==
    /\ reply = NoReply
    /\ mapped = NoResult

ErrInit ==
    /\ reply \in [statusCode : ErrorStatuses, body : ErrorBodies]
    /\ mapped = NoResult

\* handleCodeWhispererError's call of the mapper on the answer it was given
MapError ==
    /\ mapped = NoResult
    /\ mapped' = MapCodeWhispererError(reply.statusCode, reply.body)
    /\ UNCHANGED <<reply, sseVars, poolVars, convVars, utfVars, lockVars, toolVars>>

ErrNext == MapError

-----------------------------------------------------------------------------
(* utils.TruncateUTF8 applied to one string.  A string is the sequence of its *)
(* bytes; a Go string may hold any bytes.                                     *)

MaxStringBytes == 4

\* "A", the two bytes of U+00E9 and the first two bytes of U+20AC
Bytes == {65, 195, 169, 226, 130}

ByteStrings == UNION {[1..n -> Bytes] : n \in 0..MaxStringBytes}

\* utf8.RuneStart: the byte is not a continuation byte
RuneStart(b) == b \div 64 # 2

IsContinuationByte(b) == 128 <= b /\ b <= 191

\* the length of the well-formed encoding that starts at s[i], 0 when there is
\* none, with the ranges utf8.ValidString accepts
EncodingLength(s, i) ==
    LET b == s[i]
        has(k) == i + k <= Len(s)
        b2 == s[i + 1]
    IN CASE b < 128 -> 1
         [] 194 <= b /\ b <= 223 ->
               IF has(1) /\ IsContinuationByte(b2) THEN 2 ELSE 0
         [] 224 <= b /\ b <= 239 ->
               IF /\ has(2)
                  /\ IsContinuationByte(b2)
                  /\ (b = 224 => b2 >= 160)
                  /\ (b = 237 => b2 <= 159)
                  /\ IsContinuationByte(s[i + 2])
               THEN 3 ELSE 0
         [] 240 <= b /\ b <= 244 ->
               IF /\ has(3)
                  /\ IsContinuationByte(b2)
                  /\ (b = 240 => b2 >= 144)
                  /\ (b = 244 => b2 <= 143)
                  /\ IsContinuationByte(s[i + 2])
                  /\ IsContinuationByte(s[i + 3])
               THEN 4 ELSE 0
         [] OTHER -> 0

RECURSIVE ValidFrom(_, _)
ValidFrom(s, i) ==
    IF i > Len(s) THEN TRUE
    ELSE IF EncodingLength(s, i) = 0 THEN FALSE
    ELSE ValidFrom(s, i + EncodingLength(s, i))

\* utf8.ValidString
ValidString(s) == ValidFrom(s, 1)

\* a cut at the byte limit, wherever it falls
TruncateUTF8AtLimit(s, limit) ==
    IF Len(s) <= limit THEN s ELSE IF limit > 0 THEN Take(s, limit) ELSE << >>

\* utils.TruncateUTF8: s itself when it fits, else the longest s[:i] with
\* 0 < i <= maxBytes that ends before a rune start and is valid, else ""
TruncateUTF8(s, limit) ==
    IF Len(s) <= limit THEN s
    ELSE LET cuts == {i \in 1..limit : RuneStart(s[i + 1]) /\ ValidString(Take(s, i))}
         IN IF cuts = {} THEN << >>
            ELSE Take(s, CHOOSE i \in cuts : \A j \in cuts : j <= i)

NotTruncated == [done |-> FALSE, s |-> << >>]

UtfConstruct ==
    /\ str = << >>
    /\ maxBytes = 0
    /\ truncated = NotTruncated

UtfInit ==
    /\ str \in ByteStrings
    /\ maxBytes \in -1..(MaxStringBytes + 1)
    /\ truncated = NotTruncated

\* a call of TruncateUTF8
Truncate ==
    /\ ~truncated.done
    /\ truncated' = [done |-> TRUE, s |-> TruncateUTF8(str, maxBytes)]
    /\ UNCHANGED <<str, maxBytes, sseVars, poolVars, convVars, errVars, lockVars, toolVars>>

UtfNext == Truncate

-----------------------------------------------------------------------------
(* The locks.  A goroutine is the sequence of the lock operations, blocking   *)
(* calls and cursor uses its code performs, in order, for one choice of the   *)
(* branches taken; goroutines interleave at these steps.                      *)

TmMutex == "tm.mutex"
BindingMutex == "binding.mutex"
ManagerMutex == "poolManager.mutex"
SubpoolMutex == "pool.mutex"
LockNames == {TmMutex, BindingMutex, ManagerMutex, SubpoolMutex}

Procs == {"r1", "r2", "bg"}
NoProc == ""

Lock(l) == <<[op |-> "lock", arg |-> l]>>
Unlock(l) == <<[op |-> "unlock", arg |-> l]>>
RLock(l) == <<[op |-> "rlock", arg |-> l]>>
RUnlock(l) == <<[op |-> "runlock", arg |-> l]>>
Blocking(call) == <<[op |-> "block", arg |-> call]>>
AdvanceCursor == <<[op |-> "advance", arg |-> TmMutex]>>
ReadCursor == <<[op |-> "read", arg |-> TmMutex]>>

RECURSIVE Times(_, _)
Times(n, steps) == IF n = 0 THEN << >> ELSE steps \o Times(n - 1, steps)

\* refreshCacheUnlocked, and the loop of proactiveRefresh: for every
\* credential the token refresh and the usage-limit request, both HTTP calls
refreshCacheUnlockedSteps ==
    Times(Len(configOrder), Blocking("refreshSingleToken") \o Blocking("CheckUsageLimits"))

\* proactiveRefresh
proactiveRefreshSteps == Lock(TmMutex) \o refreshCacheUnlockedSteps \o Unlock(TmMutex)

\* TokenManager.IsTokenAllowedForModel
IsTokenAllowedForModelSteps == RLock(TmMutex) \o RUnlock(TmMutex)

\* selectNextAvailableTokenForModelUnlocked when it skips the first skips
\* credentials: it reads the cursor in every iteration and advances it after
\* a credential it skips
selectSteps(skips) ==
    Times(skips, ReadCursor \o AdvanceCursor)
        \o (IF skips < Len(configOrder) THEN ReadCursor ELSE << >>)

\* the branches of GetTokenWithFingerprintForSessionAndModel
Choice(bound, allowed, stale, skips, rotate) ==
    [bound |-> bound, allowed |-> allowed, stale |-> stale, skips |-> skips,
     rotate |-> rotate]

\* GetTokenWithFingerprintForSessionAndModel
GetTokenSteps(c) ==
    Lock(BindingMutex) \o Unlock(BindingMutex)
        \o (IF c.bound THEN IsTokenAllowedForModelSteps ELSE << >>)
        \o (IF c.bound /\ c.allowed THEN << >>
            ELSE (IF c.bound THEN Lock(BindingMutex) \o Unlock(BindingMutex) ELSE << >>)
                 \o Lock(TmMutex)
                 \o (IF c.stale THEN refreshCacheUnlockedSteps ELSE << >>)
                 \o selectSteps(c.skips)
                 \o Unlock(TmMutex)
                 \o (IF c.skips >= Len(configOrder) THEN << >>
                     ELSE Blocking("WaitForToken")
                          \o (IF c.rotate
                              THEN Lock(TmMutex) \o AdvanceCursor \o Unlock(TmMutex)
                              ELSE << >>)
                          \o Lock(TmMutex) \o Unlock(TmMutex)
                          \o Lock(BindingMutex) \o Unlock(BindingMutex)))

\* AuthService.MarkTokenFailed: GetCurrentTokenKey, then TokenManager.MarkTokenFailed
MarkTokenFailedSteps ==
    RLock(TmMutex) \o ReadCursor \o RUnlock(TmMutex)
        \o Lock(TmMutex) \o AdvanceCursor \o Unlock(TmMutex)

\* MarkTokenCooldown with the subpool's lock taken before the manager's
MarkTokenCooldownStepsInverted(l) ==
    Lock(l) \o RLock(ManagerMutex) \o RUnlock(ManagerMutex) \o Unlock(l)

\* SessionTokenPoolManager.MarkTokenCooldown and MarkTokenSuccess on the pool
\* with lock l
MarkTokenCooldownSteps(l) ==
    RLock(ManagerMutex) \o RUnlock(ManagerMutex) \o Lock(l) \o Unlock(l)

\* GetOrCreatePoolForModel: the primary is allocated under the manager's lock
GetOrCreatePoolForModelSteps(exists, c) ==
    Lock(ManagerMutex) \o (IF exists THEN << >> ELSE GetTokenSteps(c))
        \o Unlock(ManagerMutex)

\* TryAllocateBackupTokenForModel: the backup is allocated under the pool's lock
TryAllocateBackupTokenForModelSteps(full, c) ==
    RLock(ManagerMutex) \o RUnlock(ManagerMutex) \o Lock(SubpoolMutex)
        \o (IF full THEN << >> ELSE GetTokenSteps(c))
        \o Unlock(SubpoolMutex)

\* GetAvailableTokenForModel
GetAvailableTokenForModelSteps(exists, c, found, c2) ==
    GetOrCreatePoolForModelSteps(exists, c)
        \o Lock(SubpoolMutex) \o IsTokenAllowedForModelSteps \o Unlock(SubpoolMutex)
        \o (IF found THEN << >> ELSE TryAllocateBackupTokenForModelSteps(FALSE, c2))

\* GetNextAvailableTokenForModel
GetNextAvailableTokenForModelSteps(found, c) ==
    RLock(ManagerMutex) \o RUnlock(ManagerMutex)
        \o RLock(SubpoolMutex) \o IsTokenAllowedForModelSteps \o RUnlock(SubpoolMutex)
        \o (IF found THEN << >> ELSE TryAllocateBackupTokenForModelSteps(FALSE, c))

\* SessionTokenPoolManager.cleanup and SessionTokenBindingManager.cleanup
cleanupSteps(l) == Lock(l) \o Unlock(l)

FreshChoice == Choice(FALSE, FALSE, FALSE, 0, FALSE)
BoundChoice == Choice(TRUE, TRUE, FALSE, 0, FALSE)
StaleChoice == Choice(FALSE, FALSE, TRUE, 1, TRUE)
RebindChoice == Choice(TRUE, FALSE, FALSE, 1, FALSE)

\* the non-streaming route: token, upstream call, and the mark after a 403
NonStreamSteps(c, status) ==
    GetTokenSteps(c) \o Blocking("DoRequest")
        \o (IF status = 403 THEN MarkTokenFailedSteps ELSE << >>)

\* the streaming route: token, the subpool's token, upstream call; after a 429
\* the cooldown, the retry interval, the next token and a second call
StreamSteps(exists, c, status) ==
    GetTokenSteps(BoundChoice)
        \o GetAvailableTokenForModelSteps(exists, c, TRUE, c)
        \o Blocking("DoRequest")
        \o (CASE status = 429 ->
                    MarkTokenCooldownSteps(SubpoolMutex) \o Blocking("RetryInterval")
                        \o GetNextAvailableTokenForModelSteps(FALSE, c)
                        \o Blocking("DoRequest")
                        \o MarkTokenCooldownSteps(SubpoolMutex)
              [] status = 403 -> MarkTokenFailedSteps
              [] OTHER -> MarkTokenCooldownSteps(SubpoolMutex))

RequestPrograms ==
    {NonStreamSteps(c, status) :
         c \in {FreshChoice, BoundChoice, StaleChoice, RebindChoice}, status \in {200, 403}}
    \cup {StreamSteps(exists, c, status) :
              exists \in BOOLEAN, c \in {FreshChoice, BoundChoice}, status \in {200, 429}}

PeerPrograms ==
    {NonStreamSteps(StaleChoice, 403), StreamSteps(FALSE, FreshChoice, 429)}

BackgroundPrograms ==
    {proactiveRefreshSteps, cleanupSteps(ManagerMutex), cleanupSteps(BindingMutex)}

Free == [w |-> NoProc, r |-> {}]

LockConstruct ==
    /\ locks = [l \in LockNames |-> Free]
    /\ progs = [p \in Procs |-> << >>]
    /\ pcs = [p \in Procs |-> 1]

LockInit ==
    /\ locks = [l \in LockNames |-> Free]
    /\ progs \in [Procs -> RequestPrograms \cup PeerPrograms \cup BackgroundPrograms]
    /\ progs["r1"] \in RequestPrograms
    /\ progs["r2"] \in PeerPrograms
    /\ progs["bg"] \in BackgroundPrograms
    /\ pcs = [p \in Procs |-> 1]

Running(p) == pcs[p] <= Len(progs[p])
Current(p) == progs[p][pcs[p]]
At(p, op) == Running(p) /\ Current(p).op = op

Holds(p, l) == locks[l].w = p \/ p \in locks[l].r
Taken(l) == locks[l].w # NoProc \/ locks[l].r # {}

\* sync.RWMutex: a writer that waits keeps new readers out
WriterWaits(l) == \E q \in Procs : At(q, "lock") /\ Current(q).arg = l /\ Taken(l)

CanStep(p) ==
    /\ Running(p)
    /\ Current(p).op = "lock" => ~Taken(Current(p).arg)
    /\ Current(p).op = "rlock" =>
           locks[Current(p).arg].w = NoProc /\ ~WriterWaits(Current(p).arg)

Proceed(p) == pcs' = [pcs EXCEPT ![p] = @ + 1]

\* mutex.Lock returns
AcquireLock ==
    \E p \in Procs :
        /\ At(p, "lock") /\ CanStep(p)
        /\ locks' = [locks EXCEPT ![Current(p).arg].w = p]
        /\ Proceed(p)
        /\ UNCHANGED <<progs, sseVars, poolVars, convVars, errVars, utfVars, toolVars>>

\* mutex.RLock returns
AcquireRLock ==
    \E p \in Procs :
        /\ At(p, "rlock") /\ CanStep(p)
        /\ locks' = [locks EXCEPT ![Current(p).arg].r = @ \cup {p}]
        /\ Proceed(p)
        /\ UNCHANGED <<progs, sseVars, poolVars, convVars, errVars, utfVars, toolVars>>

\* mutex.Unlock
ReleaseLock ==
    \E p \in Procs :
        /\ At(p, "unlock")
        /\ locks' = [locks EXCEPT ![Current(p).arg].w = NoProc]
        /\ Proceed(p)
        /\ UNCHANGED <<progs, sseVars, poolVars, convVars, errVars, utfVars, toolVars>>

\* mutex.RUnlock
ReleaseRLock ==
    \E p \in Procs :
        /\ At(p, "runlock")
        /\ locks' = [locks EXCEPT ![Current(p).arg].r = @ \ {p}]
        /\ Proceed(p)
        /\ UNCHANGED <<progs, sseVars, poolVars, convVars, errVars, utfVars, toolVars>>

\* an HTTP call, a rate-limit wait or a sleep returns
BlockingReturns ==
    \E p \in Procs :
        /\ At(p, "block")
        /\ Proceed(p)
        /\ UNCHANGED <<locks, progs, sseVars, poolVars, convVars, errVars, utfVars, toolVars>>

\* tm.advanceToNextToken()
Advance ==
    \E p \in Procs :
        /\ At(p, "advance")
        /\ tm' = advanceToNextToken(G).tm
        /\ Proceed(p)
        /\ UNCHANGED <<locks, progs, rl, bindings, pools, upstream, disabled, now, orch,
                       client, selected, refused, nReq, sseVars, convVars, errVars,
                       utfVars, toolVars>>

\* tm.configOrder[tm.currentIndex]
ReadCurrentIndex ==
    \E p \in Procs :
        /\ At(p, "read")
        /\ Proceed(p)
        /\ UNCHANGED <<locks, progs, sseVars, poolVars, convVars, errVars, utfVars, toolVars>>

LockNext ==
    \/ AcquireLock
    \/ AcquireRLock
    \/ ReleaseLock
    \/ ReleaseRLock
    \/ BlockingReturns
    \/ Advance
    \/ ReadCurrentIndex

-----------------------------------------------------------------------------
(* The tool lifecycle manager.  A tool call is its id and whether its        *)
(* arguments parse to a non-empty map; a result carries the tool calls       *)
(* nested in it.                                                             *)

\* tool-use ids
ToolIDs == {"t1", "t2"}
\* tool calls per request, and nested tool calls per result
MaxToolCalls == 2
DefaultMaxNestingDepth == 3

NoArguments == "{}"
ToolArguments == {NoArguments, "args"}

ToolStatusRunning == "running"
ToolStatusCompleted == "completed"
ToolStatusError == "error"

ToolCall(ID, Arguments) == [ID |-> ID, Arguments |-> Arguments]

ToolCalls == {ToolCall(id, a) : id \in ToolIDs, a \in ToolArguments}

ToolCallLists == UNION {[1..n -> ToolCalls] : n \in 0..MaxToolCalls}

ToolExecution(ID, Status, Arguments, BlockIndex) ==
    [ID |-> ID, Status |-> Status, Arguments |-> Arguments, BlockIndex |-> BlockIndex]

SSEEvent(name, index) == [Event |-> name, index |-> index]

NewToolLifecycleManager ==
    [activeTools |-> << >>, completedTools |-> << >>, blockIndexMap |-> << >>,
     nextBlockIndex |-> 1, textIntroGenerated |-> FALSE,
     currentNestingDepth |-> 0, maxNestingDepth |-> DefaultMaxNestingDepth]

\* delete(m, id)
DeleteTool(m, id) == [k \in DOMAIN m \ {id} |-> m[k]]

getOrAssignBlockIndex(t, toolID) ==
    IF toolID \in DOMAIN t.blockIndexMap
    THEN [tlm |-> t, index |-> t.blockIndexMap[toolID]]
    ELSE [tlm |-> [t EXCEPT !.blockIndexMap = (toolID :> t.nextBlockIndex) @@ @,
                            !.nextBlockIndex = @ + 1],
          index |-> t.nextBlockIndex]

generateTextIntroduction == <<SSEEvent("content_block_delta", 0)>>

\* HandleToolCallRequest, lines 111-198: the body of the loop
HandleToolCall(r, toolCall) ==
    IF toolCall.ID \in DOMAIN r.tlm.activeTools
    THEN IF toolCall.Arguments # NoArguments
         THEN [r EXCEPT !.tlm.activeTools[toolCall.ID].Arguments = toolCall.Arguments]
         ELSE r
    ELSE LET a == getOrAssignBlockIndex(r.tlm, toolCall.ID)
             execution == ToolExecution(toolCall.ID, ToolStatusRunning,
                                        toolCall.Arguments, a.index)
         IN [tlm |-> [a.tlm EXCEPT !.activeTools = (toolCall.ID :> execution) @@ @],
             events |-> r.events
                        \o <<SSEEvent("content_block_start", a.index)>>
                        \o (IF toolCall.Arguments # NoArguments
                            THEN <<SSEEvent("content_block_delta", a.index)>>
                            ELSE << >>)]

RECURSIVE HandleToolCalls(_, _)
HandleToolCalls(r, toolCalls) ==
    IF toolCalls = << >> THEN r
    ELSE HandleToolCalls(HandleToolCall(r, Head(toolCalls)), Tail(toolCalls))

\* HandleToolCallRequest: the manager and the events returned
HandleToolCallRequest(t, toolCalls) ==
    LET intro == ~t.textIntroGenerated /\ toolCalls # << >>
        r == [tlm |-> IF intro THEN [t EXCEPT !.textIntroGenerated = TRUE] ELSE t,
              events |-> IF intro THEN generateTextIntroduction ELSE << >>]
    IN HandleToolCalls(r, toolCalls)

\* HandleToolCallResult: nestedToolCalls is what extractNestedToolCalls
\* finds in the result
HandleToolCallResult(t, ToolCallID, nestedToolCalls) ==
    IF ToolCallID \notin DOMAIN t.activeTools THEN [tlm |-> t, events |-> << >>]
    ELSE LET execution == [t.activeTools[ToolCallID] EXCEPT !.Status = ToolStatusCompleted]
             stop == <<SSEEvent("content_block_stop", execution.BlockIndex)>>
             t1 == [t EXCEPT !.completedTools = (ToolCallID :> execution) @@ @,
                             !.activeTools = DeleteTool(@, ToolCallID)]
         IN IF nestedToolCalls # << >> /\ t1.currentNestingDepth < t1.maxNestingDepth
            THEN LET n == HandleToolCallRequest(
                              [t1 EXCEPT !.currentNestingDepth = @ + 1], nestedToolCalls)
                 IN [tlm |-> [n.tlm EXCEPT !.currentNestingDepth = @ - 1],
                     events |-> stop \o n.events]
            ELSE [tlm |-> t1, events |-> stop]

HandleToolCallError(t, ToolCallID) ==
    IF ToolCallID \notin DOMAIN t.activeTools THEN [tlm |-> t, events |-> << >>]
    ELSE LET execution == [t.activeTools[ToolCallID] EXCEPT !.Status = ToolStatusError]
         IN [tlm |-> [t EXCEPT !.completedTools = (ToolCallID :> execution) @@ @,
                               !.activeTools = DeleteTool(@, ToolCallID)],
             events |-> <<SSEEvent("error", execution.BlockIndex),
                          SSEEvent("content_block_stop", execution.BlockIndex)>>]

ToolConstruct ==
    /\ tlm = NewToolLifecycleManager
    /\ toolEvents = << >>

ToolCallRequest ==
    \E toolCalls \in ToolCallLists :
        LET r == HandleToolCallRequest(tlm, toolCalls)
        IN /\ tlm' = r.tlm
           /\ toolEvents' = r.events
           /\ UNCHANGED <<sseVars, poolVars, convVars, errVars, utfVars, lockVars>>

ToolCallResult ==
    \E id \in ToolIDs, nestedToolCalls \in ToolCallLists :
        LET r == HandleToolCallResult(tlm, id, nestedToolCalls)
        IN /\ tlm' = r.tlm
           /\ toolEvents' = r.events
           /\ UNCHANGED <<sseVars, poolVars, convVars, errVars, utfVars, lockVars>>

ToolCallError ==
    \E id \in ToolIDs :
        LET r == HandleToolCallError(tlm, id)
        IN /\ tlm' = r.tlm
           /\ toolEvents' = r.events
           /\ UNCHANGED <<sseVars, poolVars, convVars, errVars, utfVars, lockVars>>

\* Reset
ResetTools ==
    /\ tlm' = [NewToolLifecycleManager EXCEPT !.maxNestingDepth = tlm.maxNestingDepth]
    /\ toolEvents' = << >>
    /\ UNCHANGED <<sseVars, poolVars, convVars, errVars, utfVars, lockVars>>

ToolNext ==
    \/ ToolCallRequest
    \/ ToolCallResult
    \/ ToolCallError
    \/ ResetTools

-----------------------------------------------------------------------------
(* Properties of the client stream *)

Positions == 1..Len(out)

Count(type) == Cardinality({k \in Positions : out[k].type = type})

HasStartBefore(k) ==
    \E j \in 1..(k - 1) : out[j].type = "content_block_start" /\ out[j].index = out[k].index

HasStopBefore(i, k) ==
    \E m \in 1..(k - 1) : out[m].type = "content_block_stop" /\ out[m].index = i

\* C1: every content_block_delta and every content_block_stop on the client
\* stream is preceded by a content_block_start with the same index.
C1_DeltaStopAfterStart ==
    \A k \in Positions :
        out[k].type \in {"content_block_delta", "content_block_stop"} => HasStartBefore(k)

\* C2: the client stream holds at most one message_delta and at most one
\* message_stop, whatever the upstream delivers.
C2_AtMostOneDeltaAndStop == Count("message_delta") <= 1 /\ Count("message_stop") <= 1

\* a finished stream whose message_delta came from the content-length handler,
\* so that the one of sendFinalEvents was a second one
C2_Witness ==
    /\ phase = "done"
    /\ \E k \in Positions : out[k].type = "message_delta" /\ out[k].info = "max_tokens"
    /\ Count("message_stop") = 1

\* C3: every index that receives a content_block_start anywhere in the stream
\* has its content_block_stop earlier than the message_delta.
C3_BlocksStoppedBeforeMessageDelta ==
    \A k \in Positions : out[k].type = "message_delta" =>
        \A j \in Positions : out[j].type = "content_block_start" =>
            HasStopBefore(out[j].index, k)

EndsWithDeltaThenStop ==
    /\ Len(out) >= 2
    /\ out[Len(out) - 1].type = "message_delta"
    /\ out[Len(out)].type = "message_stop"

EndsWithError == Len(out) >= 1 /\ out[Len(out)].type = "error"

\* C4: a finished stream ends with message_delta then message_stop as its last
\* two events, or with an error event, and nothing follows a message_stop.
C4_StreamEnding ==
    /\ phase = "done" => (EndsWithDeltaThenStop \/ EndsWithError)
    /\ \A k \in Positions : out[k].type = "message_stop" => k = Len(out)

\* the upstream events of a plain text answer: messageStart, two text deltas
\* for index 0, messageStop
PlainTextInput ==
    <<MessageStartEvent, BlockDeltaEvent(0, "text_delta", <<"a">>),
      BlockDeltaEvent(0, "text_delta", <<"a">>), MessageStopEvent>>

\* C14: for that upstream the client receives exactly message_start, ping, a
\* content_block_start of type text for index 0, the two text deltas,
\* content_block_stop for index 0, message_delta with stop_reason end_turn and
\* message_stop, in this order.
C14_PlainTextStream ==
    (phase = "done" /\ upin = PlainTextInput)
    => out = <<MessageStartEvent, PingEvent, BlockStartEvent(0, "text"),
               BlockDeltaEvent(0, "text_delta", <<"a">>),
               BlockDeltaEvent(0, "text_delta", <<"a">>),
               BlockStopEvent(0), MessageDeltaEvent("end_turn"), MessageStopEvent>>

IsStart(k, bt) == out[k].type = "content_block_start" /\ out[k].blockType = bt

StopBetween(i, j, k) ==
    \E m \in Positions : j < m /\ m < k /\ out[m].type = "content_block_stop" /\ out[m].index = i

\* the starts of type text before position k that no stop before k closes
OpenTextStartsBefore(k) ==
    {j \in Positions : j < k /\ IsStart(j, "text") /\ ~StopBetween(out[j].index, j, k)}

\* C15: when a content_block_start of type tool_use goes out, every text
\* block started before it has had its content_block_stop.
C15_TextClosedBeforeToolUse ==
    \A k \in Positions : IsStart(k, "tool_use") => OpenTextStartsBefore(k) = {}

\* a tool_use block starts after a text block was started and closed
C15_Witness ==
    \E k \in Positions :
        /\ IsStart(k, "tool_use")
        /\ \E j \in Positions : j < k /\ IsStart(j, "text") /\ out[k - 1].type = "content_block_stop"
                                  /\ out[k - 1].index = out[j].index

IsDelta(k) == out[k].type = "content_block_delta"

IsStop(k) == out[k].type = "content_block_stop"

\* the block of index i is stopped just before position k: its latest start
\* or stop before k is a stop
StoppedBefore(i, k) ==
    \E j \in Positions :
        /\ j < k /\ IsStop(j) /\ out[j].index = i
        /\ \A m \in Positions :
              (j < m /\ m < k /\ out[m].index = i) => out[m].type # "content_block_start"

\* C16: no content_block_delta, of any delta type, goes out for an index
\* whose block has been stopped.
C16_NoDeltaOnStoppedBlock ==
    \A k \in Positions : IsDelta(k) => ~StoppedBefore(out[k].index, k)

\* the block of index i is open just before position k: its latest start or
\* stop before k is a start
OpenBefore(i, k) ==
    \E j \in Positions :
        /\ j < k /\ out[j].type = "content_block_start" /\ out[j].index = i
        /\ ~StopBetween(i, j, k)

\* C17: no content_block_start goes out for an index whose block is started
\* and not yet stopped.
C17_NoStartOnOpenBlock ==
    \A k \in Positions :
        out[k].type = "content_block_start" => ~OpenBefore(out[k].index, k)

\* an index is used again after its block was stopped
C17_Witness ==
    \E j, k \in Positions :
        /\ j < k
        /\ out[j].type = "content_block_start" /\ out[k].type = "content_block_start"
        /\ out[j].index = out[k].index

ContentLengthExceeded == ExceptionEvent("ContentLengthExceededException")

\* the events from position n + 1 of the client stream on
Emitted(stream, n) == SubSeq(stream, n + 1, Len(stream))

\* seq is made of one content_block_stop for each index of S, in some order
StopsFor(seq, S) ==
    /\ Len(seq) = Cardinality(S)
    /\ \A i \in S : \E k \in DOMAIN seq : seq[k] = BlockStopEvent(i)

\* C19: wherever in the stream a ContentLengthExceededException arrives, the
\* step that processes it emits a content_block_stop for every open block,
\* then message_delta with stop_reason max_tokens, then message_stop, and
\* nothing else (no error event).
C19_ContentLengthMapsToMaxTokens ==
    [][upin' = Append(upin, ContentLengthExceeded)
       => LET new == Emitted(out', Len(out))
              n == Len(new)
          IN /\ SubSeq(out', 1, Len(out)) = out
             /\ n >= 2
             /\ StopsFor(SubSeq(new, 1, n - 2), OpenIndices(ssm.activeBlocks))
             /\ new[n - 1] = MessageDeltaEvent("max_tokens")
             /\ new[n] = MessageStopEvent]_vars

RECURSIVE TextOf(_, _)
\* the texts of the deltas of the given types in a stream, concatenated
TextOf(stream, deltaTypes) ==
    IF stream = <<>> THEN <<>>
    ELSE LET ev == Head(stream)
             here == IF ev.type = "content_block_delta" /\ ev.deltaType \in deltaTypes
                     THEN ev.text ELSE <<>>
         IN here \o TextOf(Tail(stream), deltaTypes)

RECURSIVE WithoutMarkers(_)
\* s with every <thinking> and </thinking> removed
WithoutMarkers(s) ==
    IF s = <<>> THEN <<>>
    ELSE LET n == IF HasPrefix(s, thinkingStartTag) THEN Len(thinkingStartTag)
                  ELSE IF HasPrefix(s, thinkingEndTag) THEN Len(thinkingEndTag)
                  ELSE 0
             keep == IF n = 0 THEN <<s[1]>> ELSE <<>>
         IN keep \o WithoutMarkers(Drop(s, IF n = 0 THEN 1 ELSE n))

\* C20: when the stream is finished, the text carried by the text_delta and
\* thinking_delta events sent to the client, concatenated, is the upstream
\* text with only the <thinking> and </thinking> markers removed.
C20_TextPreserved ==
    phase = "done"
        => TextOf(out, {"text_delta", "thinking_delta"})
               = WithoutMarkers(TextOf(upin, {"text_delta"}))

-----------------------------------------------------------------------------
(* Properties of credential selection and of the retry loop *)

RetryableStatuses == {429, 502, 503, 504}

Last(seq) == seq[Len(seq)]

\* the subpool entry of a key in the pool of a session, if there is one
PoolEntries(sessionID, tokenKey) ==
    IF sessionID \notin DOMAIN pools THEN {}
    ELSE {tok \in {pools[sessionID].PrimaryToken}
                    \cup {pools[sessionID].BackupTokens[i] :
                             i \in DOMAIN pools[sessionID].BackupTokens} :
             tok.TokenKey = tokenKey}

InSubpoolCooldown(sessionID, tokenKey) ==
    \E tok \in PoolEntries(sessionID, tokenKey) :
        tok.Status = TokenStatusCooldown /\ tok.CooldownUntil >= now

\* both accounts can serve the model of the first request
TwoUsableCredentials ==
    /\ nReq = 1
    /\ disabled = {}
    /\ \A k \in Keys :
          /\ upstream[k].quota > 0
          /\ ResolveModelID(orch.model).resolvedModel
                 \in AllowedModelsForLevel(upstream[k].level)

\* C5: a credential returned by a selection (global pool, session binding,
\* session subpool) is not in rate-limit cooldown at that moment.
C5_SelectedNotInCooldown == \A sel \in selected : ~sel.inCooldown

NoTierSupports(model) ==
    \A k \in Keys : ~IsModelAllowedForLevel(upstream[k].level, model)

Eligible(key, model) ==
    /\ key \in DOMAIN tm.cache
    /\ now - tm.cache[key].CachedAt <= TokenCacheTTL
    /\ ~IsTokenInCooldown(rl, key, now)
    /\ ~IsDailyLimitExceeded(rl, key)
    /\ tm.cache[key].Available > 0
    /\ IsModelAllowedForLevel(tm.cache[key].AccountLevel, model)

PrimaryWokeUp ==
    /\ orch.session \in DOMAIN pools
    /\ LET primary == pools[orch.session].PrimaryToken
       IN /\ primary.Status = TokenStatusCooldown
          /\ now > primary.CooldownUntil
          /\ tokenSupportsModel(G, primary.TokenKey, orch.model)
          /\ ~tokenIsDisabled(primary.TokenKey)

\* C23: a pooled token whose cooldown is over is available again: when the
\* primary of the subpool was put in cooldown until a time that has passed,
\* GetAvailableTokenForModel returns it.
C23_CooldownEnds ==
    [][(orch.phase = "acquire" /\ orch.retry = 0 /\ PrimaryWokeUp)
       => orch'.currentTokenKey = pools[orch.session].PrimaryToken.TokenKey]_vars

\* C24: the token GetNextAvailableTokenForModel hands to a retry is not the
\* one the retry is leaving, whether it is the primary, a backup or a backup
\* allocated by this call.
C24_NextTokenIsAnother ==
    [][(orch.phase = "acquire" /\ orch.retry > 0 /\ orch'.phase = "call")
       => orch'.currentTokenKey # orch.currentTokenKey]_vars

\* a retry was handed a backup that the call allocated
C24_Witness ==
    /\ orch.phase = "call"
    /\ orch.retry > 0
    /\ orch.session \in DOMAIN pools
    /\ orch.currentTokenKey \in BackupKeys(pools[orch.session])
    /\ \E sel \in selected : sel.path = "subpool" /\ sel.key = orch.currentTokenKey

\* C25: a session's subpool never holds more than max_pool_size - 1 backups
\* beside its primary, however the failovers of the session's concurrent
\* requests interleave.
C25_BackupsWithinPoolSize ==
    \A s \in DOMAIN pools : Len(pools[s].BackupTokens) <= SessionPoolMaxSize - 1

\* the pool is full and a failover that found no ready token in it was refused
\* a further backup although an account outside the pool could be selected
C25_Witness ==
    \E s \in DOMAIN pools :
        /\ Len(pools[s].BackupTokens) = SessionPoolMaxSize - 1
        /\ orch.phase = "done" /\ orch.outcome = "token_error" /\ orch.retry > 0
        /\ \E k \in Keys \ (BackupKeys(pools[s]) \cup {pools[s].PrimaryToken.TokenKey}) :
              Eligible(k, orch.model)

\* C26: a step that leaves a session's subpool in place leaves its primary
\* with the same credential, unless the tier of that credential denies the
\* model of the request being served.  (Access tokens do not expire within
\* the window.)
C26_PrimaryNotReassigned ==
    [][\A s \in (DOMAIN pools) \cap (DOMAIN pools') :
          pools'[s].PrimaryToken.TokenKey # pools[s].PrimaryToken.TokenKey
              => ~tokenSupportsModel(G, pools[s].PrimaryToken.TokenKey, orch'.model)]_vars

\* the second request of a session is served by a backup while the primary,
\* in cooldown, is still the pool's primary
C26_Witness ==
    /\ nReq = 2
    /\ orch.phase = "call"
    /\ orch.session \in DOMAIN pools
    /\ pools[orch.session].PrimaryToken.Status = TokenStatusCooldown
    /\ orch.currentTokenKey \in BackupKeys(pools[orch.session])

\* C27: a credential the session subpool returns from its primary or its
\* backups has not used up its daily cap in the global pool.  A backup
\* allocated by the same step was counted by the global selection just before,
\* within the cap, and is left out.
C27_SubpoolRespectsDailyCap ==
    \A sel \in selected :
        (/\ sel.path = "subpool"
         /\ ~\E other \in selected : other.path = "global" /\ other.key = sel.key)
        => ~sel.dailyExceeded

\* C28: a run of the janitor deletes every subpool last accessed more than
\* the subpool TTL ago and keeps every subpool accessed within the TTL.
C28_JanitorDeletesExpiredPools ==
    [][Cleanup
       => \A s \in DOMAIN pools :
              s \in DOMAIN pools' <=> now - pools[s].LastAccessedAt <= SessionPoolTTL]_vars

\* the pool of the streaming request being served is gone: the janitor ran
\* after the TTL had passed
C28_Witness ==
    /\ orch.phase = "call"
    /\ orch.stream
    /\ orch.session \notin DOMAIN pools

\* C29: when the retry loop puts a token in cooldown after an upstream
\* answer, the cooldown is quota_reset_timestamp - now if that lies strictly
\* between 0 and the 24 hours (MaxCooldown), and the default cooldown if the
\* timestamp is missing, not in the future, or 24 hours or more away.
C29_CooldownFromQuotaReset ==
    [][(orch.phase = "call" /\ orch'.phase # "call"
        /\ InSubpoolCooldown(orch.session, orch.currentTokenKey)'
        /\ ~InSubpoolCooldown(orch.session, orch.currentTokenKey))
       => LET q == orch'.quotaResetTimestamp
              expected == IF q - now > 0 /\ q - now < MaxCooldown
                          THEN q - now ELSE SessionPoolCooldown
          IN \A tok \in PoolEntries(orch.session, orch.currentTokenKey)' :
                 tok.CooldownUntil = now + expected]_vars

\* a token is in cooldown for the time the upstream's body gave, which is
\* not the default
C29_Witness ==
    /\ orch.quotaResetTimestamp > 0
    /\ \E tok \in PoolEntries(orch.session, orch.currentTokenKey) :
          /\ tok.Status = TokenStatusCooldown
          /\ tok.CooldownUntil = orch.quotaResetTimestamp
          /\ tok.CooldownUntil - now > SessionPoolCooldown

\* C7: in the retry loop, an upstream status 429, 502, 503 or 504 on an attempt
\* with retry < max_retries writes nothing to the client, puts the token in
\* subpool cooldown and leads to another attempt.
C7_RetryableNotSurfaced ==
    [][(/\ orch.phase = "call"
        /\ orch.stream
        /\ orch.retry < SessionPoolMaxRetries
        /\ Len(orch'.attempts) = Len(orch.attempts) + 1
        /\ Last(orch'.attempts).status \in RetryableStatuses
        /\ orch'.outcome # "cancelled")
       => (/\ client' = client
           /\ orch'.phase = "acquire"
           /\ InSubpoolCooldown(orch.session, orch.currentTokenKey)')]_vars

\* C8: with two usable credentials, a first upstream answer 429 and a second
\* answer 200, the finished request made its retry with the other credential,
\* the client has exactly one complete response, the first credential's
\* subpool entry is in cooldown and the second's counts a success.
C8_FailoverToSecondCredential ==
    (/\ TwoUsableCredentials
     /\ orch.stream
     /\ orch.phase = "done"
     /\ orch.outcome # "cancelled"
     /\ Len(orch.attempts) >= 1
     /\ orch.attempts[1].status = 429
     /\ Len(orch.attempts) >= 2 => orch.attempts[2].status = 200)
    => (/\ Len(orch.attempts) = 2
        /\ orch.attempts[2].key # orch.attempts[1].key
        /\ client = <<Response(200, "ok")>>
        /\ \E tok \in PoolEntries(orch.session, orch.attempts[1].key) :
               tok.Status = TokenStatusCooldown
        /\ \E tok \in PoolEntries(orch.session, orch.attempts[2].key) :
               tok.SuccessCount >= 1)

\* C9: when GetNextAvailableTokenForModel fails on a retry, the loop goes on
\* to the upstream call with the token it had.
C9_KeepsCurrentToken ==
    [][(/\ orch.phase = "acquire"
        /\ orch.retry > 0
        /\ orch' # orch
        /\ GetNextAvailableTokenForModel(G, orch.session, orch.currentTokenKey,
                                         orch.model, now).err # "")
       => (/\ orch'.phase = "call"
           /\ orch'.currentTokenKey = orch.currentTokenKey)]_vars

\* C10: a non-streaming request follows the retry contract too: a retryable
\* upstream status before max_retries is not surfaced, the token is put in
\* cooldown and another attempt follows.
C10_NonStreamRetries ==
    [][(/\ orch.phase = "call"
        /\ ~orch.stream
        /\ Len(orch.attempts) < SessionPoolMaxRetries
        /\ Len(orch'.attempts) = Len(orch.attempts) + 1
        /\ Last(orch'.attempts).status \in RetryableStatuses)
       => (/\ client' = client
           /\ orch'.phase # "done")]_vars

\* the exits of the retry loop that hand no upstream response to the caller
ErrorExits == {"token_error", "transport_error", "max_retries", "upstream_error"}

\* C11: a streaming request that left the retry loop on a token selection
\* failure (first or later attempt), a transport error, exhausted retries or a
\* mapped upstream error has an error response written to the client.
C11_ErrorResponseOnEveryExit ==
    (orch.phase = "done" /\ orch.stream /\ orch.outcome \in ErrorExits)
    => (Len(client) = 1 /\ client[1].status # 200)

-----------------------------------------------------------------------------
(* Properties of the upstream envelope *)

\* the tool uses of the last assistant turn of a history
PriorTurnToolUses(history) ==
    LET turns == {i \in DOMAIN history : history[i].kind = "assistant"}
    IN IF turns = {} THEN {}
       ELSE Range(history[CHOOSE i \in turns : \A j \in turns : j <= i].ToolUses)

\* C12: a tool result kept in the envelope answers a tool use of the
\* immediately prior assistant turn of the history that no tool result of the
\* history has answered already.
C12_RetainedResultsAnswerPriorTurn ==
    envelope.built =>
        \A k \in DOMAIN envelope.ToolResults :
            /\ envelope.ToolResults[k] \in PriorTurnToolUses(BuildHistory(request))
            /\ envelope.ToolResults[k] \notin historyToolResultIDs(BuildHistory(request))

\* the tool uses of the envelope that a tool result answers
Answered == historyToolResultIDs(envelope.History) \cup Range(envelope.ToolResults)

\* C13: in every envelope, with or without tool results in the current
\* message, every tool use left in the assistant history has a matching tool
\* result, and the history is otherwise the one built from the messages.
C13_OrphanToolUsesStripped ==
    envelope.built =>
        /\ allToolUseIDs(envelope.History) \subseteq Answered
        /\ Len(envelope.History) = Len(BuildHistory(request))
        /\ \A i \in DOMAIN envelope.History :
              /\ envelope.History[i].kind = BuildHistory(request)[i].kind
              /\ envelope.History[i].ToolResults = BuildHistory(request)[i].ToolResults
              /\ envelope.History[i].ToolUses =
                    SelectSeq(BuildHistory(request)[i].ToolUses, LAMBDA id : id \in Answered)

\* C31: when the upstream answers 403, the credential put in cooldown is the
\* credential the request was sent with, and no other credential is touched,
\* wherever the pool's cursor stands by then.
C31_MarkedCredentialIsTheUsedOne ==
    [][\A k \in Keys :
          orch'.attempts = Append(orch.attempts, Attempt(k, 403)) =>
              /\ rl'.cooldownUntil[k] = now + RateLimitCooldownDuration
              /\ \A j \in Keys \ {k} : rl'.cooldownUntil[j] = rl.cooldownUntil[j]]_vars

\* C32: once a write to the client has failed or the client has cancelled, the
\* stream loop processes no further upstream event and writes nothing more,
\* and no credential is put in cooldown for it.
C32_LoopStopsWhenClientGone ==
    [][clientGone => (nRead' = nRead /\ out' = out /\ rl' = rl /\ tm' = tm)]_vars

\* C34: every issue of a credential to a request takes one of its reservations:
\* in a step that issues a credential without refreshing the cache, the
\* credential's available counter goes down, whether it was selected from the
\* global pool, through the session's binding or from the session's subpool.
C34_IssueTakesReservation ==
    [][\A sel \in selected' :
          (sel.key \in DOMAIN tm.cache /\ tm'.lastRefresh = tm.lastRefresh) =>
              tm'.cache[sel.key].Available < tm.cache[sel.key].Available]_vars

\* the type of block a delta of type dt belongs to
BlockTypeOf(dt) ==
    CASE dt = "thinking_delta" -> "thinking"
      [] dt = "input_json_delta" -> "tool_use"
      [] dt = "text_delta" -> "text"
      [] OTHER -> NoType

\* the starts before position k of the block of index i that no stop before
\* k closes
OpenStartsBefore(i, k) ==
    {j \in Positions :
        /\ j < k /\ out[j].type = "content_block_start" /\ out[j].index = i
        /\ ~StopBetween(i, j, k)}

\* C39: every content_block_delta on the client stream lies inside a started,
\* unstopped block of its index, and the type of that block is the one its
\* delta type belongs to: thinking for thinking_delta, tool_use for
\* input_json_delta, text for text_delta.
C39_DeltaMatchesOpenBlock ==
    \A k \in Positions :
        IsDelta(k) =>
            /\ OpenStartsBefore(out[k].index, k) # {}
            /\ \A j \in OpenStartsBefore(out[k].index, k) :
                  out[j].blockType = BlockTypeOf(out[k].deltaType)

\* C40: no tool-use id is in the active map and in the completed map of the
\* tool lifecycle manager at the same time, whatever requests, results and
\* errors it has handled.
C40_ActiveAndCompletedDisjoint ==
    DOMAIN tlm.activeTools \cap DOMAIN tlm.completedTools = {}

\* the keys a session's subpool holds
SubpoolKeys(pool) == {pool.PrimaryToken.TokenKey} \cup BackupKeys(pool)

\* C38: a token acquisition of the retry loop does not fail on a subpool that
\* exists and is not full while the global pool holds an eligible credential
\* for the model that the subpool does not hold yet: the backup allocation
\* succeeds with that or another new credential.
C38_BackupAllocationSucceeds ==
    [][(/\ orch.phase = "acquire"
        /\ orch'.phase = "done"
        /\ orch'.outcome = "token_error"
        /\ orch.session \in DOMAIN pools')
       => ~(/\ 1 + Len(pools'[orch.session].BackupTokens) < SessionPoolMaxSize
            /\ \E k \in (Keys \ disabled) \ SubpoolKeys(pools'[orch.session]) :
                  Eligible(k, orch.model)')]_vars

-----------------------------------------------------------------------------
(* Properties of the error mapper *)

ErrorIs(result, code, httpStatus, mark) ==
    /\ result.Response.Type = "error"
    /\ result.Response.Code = code
    /\ result.Response.HTTPStatus = httpStatus
    /\ result.ShouldMarkTokenFail = mark

ReasonIsContentLength(body) ==
    body.parsed /\ body.Reason = <<"CONTENT_LENGTH_EXCEEDS_THRESHOLD">>

SaysMonthlyOrQuota(body) ==
    /\ body.parsed
    /\ \/ Contains(body.Reason, "MONTHLY_REQUEST_COUNT")
       \/ Contains(body.Message, "monthly")
       \/ Contains(body.Message, "quota")

\* C30: for every non-200 status and body the mapper's result is the row of the
\* strategy table: 400 with reason CONTENT_LENGTH_EXCEEDS_THRESHOLD is a
\* max_tokens message_delta with HTTP 200 and no mark, any other 400 is
\* invalid_request_error/400/no, 402 with monthly or quota is
\* rate_limited/429/yes, 403 is unauthorized/401/yes, 429 is rate_limited/429/no,
\* 500 is api_error/500/no, 503 is overloaded_error/503/no, and every other
\* status is api_error with the status passed through and no mark
C30_MapperFollowsStrategyTable ==
    (mapped # NoResult /\ reply.statusCode # 200) =>
        LET st == reply.statusCode
            body == reply.body
        IN /\ (st = 400 /\ ReasonIsContentLength(body)) =>
                  /\ mapped.Response.Type = "message_delta"
                  /\ mapped.Response.StopReason = "max_tokens"
                  /\ mapped.Response.HTTPStatus = 200
                  /\ ~mapped.ShouldMarkTokenFail
           /\ (st = 400 /\ ~ReasonIsContentLength(body)) =>
                  ErrorIs(mapped, "invalid_request_error", 400, FALSE)
           /\ (st = 402 /\ SaysMonthlyOrQuota(body)) =>
                  ErrorIs(mapped, "rate_limited", 429, TRUE)
           /\ st = 403 => ErrorIs(mapped, "unauthorized", 401, TRUE)
           /\ st = 429 => ErrorIs(mapped, "rate_limited", 429, FALSE)
           /\ st = 500 => ErrorIs(mapped, "api_error", 500, FALSE)
           /\ st = 503 => ErrorIs(mapped, "overloaded_error", 503, FALSE)
           /\ (st \notin {400, 403, 429, 500, 503}
                  /\ ~(st = 402 /\ SaysMonthlyOrQuota(body))) =>
                  ErrorIs(mapped, "api_error", st, FALSE)

\* a 402 whose message speaks of the quota was mapped, and marks the credential
C30_Witness ==
    /\ mapped # NoResult
    /\ reply.statusCode = 402
    /\ Contains(reply.body.Message, "quota")
    /\ ~Contains(reply.body.Reason, "MONTHLY_REQUEST_COUNT")
    /\ mapped.ShouldMarkTokenFail
    /\ mapped.Response.HTTPStatus = 429

-----------------------------------------------------------------------------
(* Properties of the locks *)

\* C35: a goroutine that is in a blocking operation (a token-refresh or
\* usage-limit HTTP call, a rate-limit wait, the upstream call) does not hold
\* the credential pool's lock.
C35_NoBlockingUnderPoolLock ==
    \A p \in Procs : At(p, "block") => ~Holds(p, TmMutex)

Moves(p) == pcs'[p] # pcs[p]

\* C36: a goroutine reads the cursor only while it holds the pool's lock and
\* changes it only while it holds the lock for writing, and every change moves
\* the cursor forward by one position modulo the number of credentials.
C36_CursorUnderLock ==
    [][/\ \A p \in Procs :
             /\ (Moves(p) /\ At(p, "read")) => Holds(p, TmMutex)
             /\ (Moves(p) /\ At(p, "advance")) => locks[TmMutex].w = p
       /\ tm'.currentIndex # tm.currentIndex =>
             /\ tm'.currentIndex = (tm.currentIndex + 1) % Len(configOrder)
             /\ \E p \in Procs : Moves(p) /\ At(p, "advance")]_vars

Advanced(p) == \E i \in 1..(pcs[p] - 1) : progs[p][i].op = "advance"

\* two goroutines have moved the cursor, and a third step brought it back to
\* the first credential
C36_Witness ==
    /\ Advanced("r1")
    /\ Advanced("r2")
    /\ tm.currentIndex = 0

LockRank(l) ==
    CASE l = ManagerMutex -> 1
      [] l = SubpoolMutex -> 2
      [] l = BindingMutex -> 3
      [] l = TmMutex -> 3

\* C37: a goroutine that asks for a lock holds only locks of the layers above
\* it (the subpool manager's, then a subpool's, then the binding manager's or
\* the pool's), and as long as some goroutine has not finished, some goroutine
\* can take its next step.
C37_OneDirectionNoDeadlock ==
    /\ \A p \in Procs :
           (At(p, "lock") \/ At(p, "rlock")) =>
               \A h \in LockNames : Holds(p, h) => LockRank(h) < LockRank(Current(p).arg)
    /\ (\E p \in Procs : Running(p)) => \E p \in Procs : CanStep(p)

\* a request allocates a primary inside the manager's lock and has reached the
\* pool's lock, while the other request waits for the manager's lock
C37_Witness ==
    /\ locks[ManagerMutex].w = "r1"
    /\ locks[TmMutex].w = "r1"
    /\ At("r2", "lock") /\ Current("r2").arg = ManagerMutex

-----------------------------------------------------------------------------
(* Properties of TruncateUTF8 *)

-----------------------------------------------------------------------------
(* Specifications: the stream translator of one response, and the credential  *)
(* pool with the request executors.                                           *)

InitSSE ==
    /\ SSEInit
    /\ ErrConstruct
    /\ UtfConstruct
    /\ LockConstruct
    /\ ToolConstruct
    /\ ConvConstruct
    /\ PoolConstruct
    /\ upstream = [k \in Keys |-> [level |-> "free", quota |-> 1]]
    /\ disabled = {}

SpecSSE == InitSSE /\ [][SSENext]_vars

SpecRecorded == InitSSE /\ [][RecordedNext]_vars

SpecCancel == InitSSE /\ [][CancelNext]_vars

InitPool == SSEInit /\ PoolInit /\ ConvConstruct /\ ErrConstruct /\ UtfConstruct /\ LockConstruct /\ ToolConstruct

SpecPool == InitPool /\ [][PoolNext]_vars

\* three accounts with their full quota, the third a paid one, none disabled
InitFailover ==
    /\ SSEInit
    /\ ErrConstruct
    /\ UtfConstruct
    /\ LockConstruct
    /\ ToolConstruct
    /\ PoolConstruct
    /\ ConvConstruct
    /\ upstream \in [Keys -> [level : {"free", "pro"}, quota : {MaxQuota}]]
    /\ upstream[configOrder[3]].level = "pro"
    /\ disabled = {}

SpecFailover == InitFailover /\ [][FailoverNext]_vars

InitConv ==
    /\ SSEInit
    /\ ErrConstruct
    /\ UtfConstruct
    /\ LockConstruct
    /\ ToolConstruct
    /\ PoolConstruct
    /\ upstream = [k \in Keys |-> [level |-> "free", quota |-> 1]]
    /\ disabled = {}
    /\ ConvInit

SpecConv == InitConv /\ [][ConvNext]_vars

\* one upstream answer of any status and body, mapped once
InitErrors ==
    /\ SSEInit
    /\ PoolConstruct
    /\ upstream = [k \in Keys |-> [level |-> "free", quota |-> 1]]
    /\ disabled = {}
    /\ ConvConstruct
    /\ ErrInit
    /\ UtfConstruct
    /\ LockConstruct
    /\ ToolConstruct

SpecErrors == InitErrors /\ [][ErrNext]_vars

\* one string of any bytes and one limit, truncated once
InitUtf ==
    /\ SSEInit
    /\ PoolConstruct
    /\ upstream = [k \in Keys |-> [level |-> "free", quota |-> 1]]
    /\ disabled = {}
    /\ ConvConstruct
    /\ ErrConstruct
    /\ UtfInit
    /\ LockConstruct
    /\ ToolConstruct

SpecUtf == InitUtf /\ [][UtfNext]_vars

\* two requests and a background goroutine, each with one choice of branches
InitLocks ==
    /\ SSEInit
    /\ PoolConstruct
    /\ upstream = [k \in Keys |-> [level |-> "free", quota |-> 1]]
    /\ disabled = {}
    /\ ConvConstruct
    /\ ErrConstruct
    /\ UtfConstruct
    /\ LockInit
    /\ ToolConstruct

SpecLocks == InitLocks /\ [][LockNext]_vars


InitTools ==
    /\ SSEInit
    /\ PoolConstruct
    /\ upstream = [k \in Keys |-> [level |-> "free", quota |-> 1]]
    /\ disabled = {}
    /\ ConvConstruct
    /\ ErrConstruct
    /\ UtfConstruct
    /\ LockConstruct
    /\ ToolConstruct

SpecTools == InitTools /\ [][ToolNext]_vars

=============================================================================
